---- MODULE Spec2Model ----
(***************************************************************************)
(* Verification model of react-native-jala-orm.                            *)
(*                                                                         *)
(*   SpecTx     the connection's transaction manager (ManagesTransactions, *)
(*              Connection._run, setPdo/disconnect)                        *)
(*   SpecScope  local and global scopes of the model query builder         *)
(*   SpecAttr   attribute storage and dirty tracking of one model          *)
(*   SpecInst   several instances of one model class, mass assignment      *)
(*   SpecSave   save() and delete() of one model with its lifecycle hooks   *)
(*   SpecPersist save() of one model with its attributes and snapshots      *)
(*   SpecBoot   booting of model classes by their constructors              *)
(*   SpecEager  the eager-load map of the model query builder and get()     *)
(*   SpecFind   findOrFail and chunkById of the model query builder          *)
(*   SpecTouch  withoutTouching, isIgnoringTouch and Relation.touch          *)
(*   SpecKeys   Relation._getKeys                                            *)
(***************************************************************************)
EXTENDS Integers, Sequences, FiniteSets, TLC

\* ------------------------------------------------------------------ bounds
MaxDepth == 3
MaxAttempts == 3
MaxFailures == 2

\* ------------------------------------------------------------ error values
\* An error is represented by its message; the three names below are the
\* errors the JavaScript runtime or the code itself raises.
NoError == "none"
TypeError == "TypeError"
ReferenceError == "ReferenceError"

\* Messages a driver or a callback can fail with.  The first is one of the
\* phrases listed in DetectsDeadlocks, the second one of the phrases listed
\* in DetectsLostConnections, the third is in neither list.
DeadlockMessages == {"database is locked"}
LostConnectionMessages == {"Lost connection"}
OtherMessages == {"syntax error"}
Messages == DeadlockMessages \cup LostConnectionMessages \cup OtherMessages

\* _causedByDeadlock(e): `_.contains(message, [...])`.  The module imports
\* lodash 4 (the code base uses upperFirst, lowerFirst, sortedUniq, which only
\* lodash 4 has) and lodash 4 exports no `contains`: the call raises a
\* TypeError before any phrase is looked at.  The result is one of
\* "true", "false", TypeError.
causedByDeadlock(e) == TypeError

\* _causedByLostConnection(e): same construction, same outcome.
causedByLostConnection(e) == TypeError

\* e.getPrevious(): only a QueryException has it; _runQueryCallback never
\* manages to build one (see runQueryCallback), so the receiver is a built-in
\* error and the call raises a TypeError.
getPrevious(e) == TypeError

\* ------------------------------------------------------------------- state
VARIABLES
  transactions,      \* Connection._transactions
  pdo,               \* Connection._pdo: "open" or "null"
  supportsSavepoints,\* this._queryGrammar.supportsSavepoints()
  events,            \* Connection._events is set
  reconnector,       \* Connection._reconnector is a function
  op,                \* the last operation called on the connection
  arg,               \* its inputs
  pre,               \* _transactions when it was called
  sent,              \* the statements it sent to the driver, in order
  fired,             \* the notifications it dispatched, in order
  thrown,            \* the error it raised to its caller, or NoError
  calls,             \* how often it invoked its callback
  ret                \* the invocation whose result it returned (0: none)

txVars == <<transactions, pdo, supportsSavepoints, events, reconnector,
            op, arg, pre, sent, fired, thrown, calls, ret>>

\* The model query builder (Builder in model/Builder.js) and the query it wraps.
VARIABLES
  wheres,            \* this._query.wheres, the predicate list
  scopes,            \* this._scopes: the identifiers of the applied global
                     \* scopes, in registration order
  removedScopes,     \* this._removedScopes, in order
  bop,               \* the last operation called on the builder
  barg,              \* the scopes it was given
  preWheres,         \* query.wheres when it was called
  added              \* the predicates the scopes it ran have added, per scope

scopeVars == <<wheres, scopes, removedScopes, bop, barg, preWheres, added>>

\* One model instance (HasAttributes).
VARIABLES
  attributes,        \* this._attributes: key -> raw value, or Absent
  original,          \* this._original
  mop,               \* the last operation called on the model
  mkey,              \* the key given to it ("" when it takes none)
  mval,              \* the value given to it (Absent when it takes none)
  changes            \* the keys of this._changes

attrVars == <<attributes, original, mop, mkey, mval, changes>>

\* Several instances of one model class (HasAttributes applied to
\* Model.prototype, GuardsAttributes).
VARIABLES
  proto,        \* Model.prototype._attributes: attribute name -> value
  inst,         \* instance -> [made, own, attrs, orig]
  guards,       \* [fillable, guarded, unguarded] of the class
  iop,          \* the last operation
  iwho,         \* the instance it was invoked on
  iarg,         \* the attributes it was given
  ithrown,      \* the error it raised
  preProto,     \* proto before the last operation
  preInst       \* inst before the last operation

instVars == <<proto, inst, guards, iop, iwho, iarg, ithrown, preProto,
              preInst>>

\* One model being saved and deleted (Model.save, Model.delete, HasEvents).
VARIABLES
  exists,       \* this.exists
  dirty,        \* whether the attributes differ from the original snapshot
  dispatcher,   \* whether Model._dispatcher is set
  vetoes,       \* events with a listener on the dispatcher that returns false
  mapped,       \* events named in this._dispatchesEvents
  sop,          \* the last operation
  sret,         \* what it returned
  sthrown,      \* the error it raised
  stmts,        \* the statements it executed
  synced,       \* whether it called syncOriginal
  spre,         \* [exists, dirty] before it
  sdirty        \* the attributes its update statement wrote

saveVars == <<exists, dirty, dispatcher, vetoes, mapped, sop, sret, sthrown,
              stmts, synced, spre, sdirty>>

\* Booting of model classes (Model._bootIfNotBooted, clearBootedModels).
VARIABLES
  booted,       \* class -> its own static _booted, if it has one
  stack,        \* the constructors in progress, innermost last
  runs,         \* class -> _boot() runs since the last clearBootedModels()
  everBooted,   \* class -> whether _boot() ever ran for it
  constructed   \* class -> whether a construction of it has completed

bootVars == <<booted, stack, runs, everBooted, constructed>>

\* The eager-load map of one model query builder (with, without, get,
\* getRelation).
VARIABLES
  eagerLoad,    \* this._eagerLoad: [arr, entries], entries in property order
  declaresName, \* whether the model has a relationship method called "name"
  eop,          \* the last operation
  epaths,       \* the paths or the relation name it was given
  epre,         \* eagerLoad before it
  ethrown,      \* the error it raised
  rows,         \* the rows get() hydrated
  resolved,     \* the relationship methods it called, in order
  nestedUnder,  \* what _relationsNestedUnder computed
  installed     \* the entries handed to with() of the sub-query

eagerVars == <<eagerLoad, declaresName, eop, epaths, epre, ethrown, rows,
               resolved, nestedUnder, installed>>

\* The components added after the first three.
\* One table queried through the model query builder (findOrFail, chunkById).
VARIABLES
  table,        \* the primary keys of the rows in the table
  qop,          \* the last operation
  qarg,         \* [single, ids, count, stopAt]: what it was given
  qret,         \* [kind, promise, value]: what it returned
  qthrown,      \* the error it raised
  qcalls,       \* what it passed to its callback, per invocation
  requests      \* the last key of each page request, 0 for none

findVars == <<table, qop, qarg, qret, qthrown, qcalls, requests>>

\* The classes relations do not touch (Model._ignoreOnTouch,
\* withoutTouchingOn, isIgnoringTouch, Relation.touch).
VARIABLES
  ignoreOnTouch,  \* class -> its own static _ignoreOnTouch, if it has one
  open,           \* the withoutTouchingOn calls in progress, innermost last
  declares,       \* whether the model classes declare a static `timestamps`
  tcall,          \* the last operation
  targ,           \* the class it was about
  tanswer,        \* what isIgnoringTouch returned
  updates         \* the update statements touch() issued

touchVars == <<ignoreOnTouch, open, declares, tcall, targ, tanswer, updates>>

\* The parent keys of a relation's batch predicate (Relation._getKeys).
VARIABLES
  parents,      \* the key of each parent model, in the order given
  kop,          \* the last operation
  keysOut       \* what _getKeys returned

keyVars == <<parents, kop, keysOut>>

extraVars == <<findVars, touchVars, keyVars>>

laterVars == <<instVars, saveVars, bootVars, eagerVars, extraVars>>

vars == <<txVars, scopeVars, attrVars, laterVars>>

\* The statements the transaction manager sends to the driver.
Stmt(kind, level) == [kind |-> kind, level |-> level]
StmtKinds == {"begin", "commit", "rollback", "savepoint", "rollback_to"}

\* The running connection while one operation executes.
Conn == [t |-> transactions, pdo |-> pdo, sent |-> <<>>, fired |-> <<>>,
         thrown |-> NoError, calls |-> 0, ret |-> 0]

Ok(s) == s.thrown = NoError
Throw(s, e) == [s EXCEPT !.thrown = e]
Catch(s) == [s EXCEPT !.thrown = NoError]

\* The environment of one operation: the kinds of statement the driver
\* fails on, and the message it fails with.
Healthy == [fail |-> {}, err |-> "syntax error"]
DriverMessages == {"Lost connection", "syntax error"}
PdoEnvs == {Healthy} \cup
           { [fail |-> {k}, err |-> e] : k \in StmtKinds, e \in DriverMessages }
\* The environments transaction() is exercised in.
TxEnvs == {Healthy} \cup
          { [fail |-> {k}, err |-> "Lost connection"] : k \in {"commit", "rollback"} }

\* this.getPdo().<statement>(): a null driver has no methods; otherwise the
\* statement reaches the driver, which may fail on it.
PdoSend(s, stmt, env) ==
  IF s.pdo = "null" THEN Throw(s, TypeError)
  ELSE IF stmt.kind \in env.fail
       THEN Throw([s EXCEPT !.sent = Append(@, stmt)], env.err)
       ELSE [s EXCEPT !.sent = Append(@, stmt)]

\* _fireConnectionEvent: without a dispatcher it returns; with one it builds
\* the event object from a class the module never imports
\* (EventsTransactionBeginning, ...Committed, ...RolledBack), which raises a
\* ReferenceError before anything is dispatched.
fireConnectionEvent(s, event) ==
  IF ~events THEN s ELSE Throw(s, ReferenceError)

\* setPdo(pdo)
setPdo(s, p) == [s EXCEPT !.t = 0, !.pdo = p]

\* reconnect(): calls the reconnector, which installs a fresh driver through
\* setPdo; without one it raises (LogicException is not imported either).
reconnect(s) ==
  IF reconnector THEN setPdo(s, "open") ELSE Throw(s, ReferenceError)

\* _handleBeginTransactionException
handleBeginTransactionException(s, e, env) ==
  LET c == causedByLostConnection(e) IN
  IF c = TypeError THEN Throw(s, TypeError)
  ELSE IF c = "true"
       THEN LET r == reconnect(s) IN
            IF Ok(r) THEN PdoSend(r, Stmt("begin", 0), env) ELSE r
       ELSE Throw(s, e)

\* _createSavepoint
createSavepoint(s, env) == PdoSend(s, Stmt("savepoint", s.t + 1), env)

\* Mutant: every beginTransaction starts a real transaction, nested or not.
createTransactionAlwaysReal(s, env) ==
  LET r == PdoSend(s, Stmt("begin", 0), env) IN
  IF Ok(r) THEN r
  ELSE handleBeginTransactionException(Catch(r), r.thrown, env)

\* _createTransaction
createTransaction(s, env) ==
  IF s.t = 0
  THEN LET r == PdoSend(s, Stmt("begin", 0), env) IN
       IF Ok(r) THEN r
       ELSE handleBeginTransactionException(Catch(r), r.thrown, env)
  ELSE IF s.t >= 1 /\ supportsSavepoints
       THEN createSavepoint(s, env)
       ELSE s

\* beginTransaction
beginTransaction(s, env) ==
  LET r == createTransaction(s, env) IN
  IF ~Ok(r) THEN r
  ELSE fireConnectionEvent([r EXCEPT !.t = @ + 1], "beganTransaction")

MaxOf(a, b) == IF a >= b THEN a ELSE b

\* Mutant: commit lowers the depth without clamping it at 0.
commitUnclamped(s, env) ==
  LET r == IF s.t = 1 THEN PdoSend(s, Stmt("commit", 0), env) ELSE s IN
  IF ~Ok(r) THEN r
  ELSE fireConnectionEvent([r EXCEPT !.t = @ - 1], "committed")

\* commit
commit(s, env) ==
  LET r == IF s.t = 1 THEN PdoSend(s, Stmt("commit", 0), env) ELSE s IN
  IF ~Ok(r) THEN r
  ELSE fireConnectionEvent([r EXCEPT !.t = MaxOf(0, @ - 1)], "committed")

\* _performRollBack
performRollBack(s, toLevel, env) ==
  IF toLevel = 0 THEN PdoSend(s, Stmt("rollback", 0), env)
  ELSE IF supportsSavepoints
       THEN PdoSend(s, Stmt("rollback_to", toLevel + 1), env)
       ELSE s

\* _handleRollBackException
handleRollBackException(s, e) ==
  LET c == causedByLostConnection(e) IN
  IF c = TypeError THEN Throw(s, TypeError)
  ELSE Throw(IF c = "true" THEN [s EXCEPT !.t = 0] ELSE s, e)

\* The toLevel argument of rollBack: omitted (null) or a number.
NoLevel == [given |-> FALSE, level |-> 0]
Level(n) == [given |-> TRUE, level |-> n]

\* Mutant: the range check lets the current depth through (> for >=).
rollBackToCurrentLevel(s, lv, env) ==
  LET toLevel == IF ~lv.given THEN s.t - 1 ELSE lv.level IN
  IF toLevel < 0 \/ toLevel > s.t THEN s
  ELSE LET r == performRollBack(s, toLevel, env)
           h == IF Ok(r) THEN r ELSE handleRollBackException(Catch(r), r.thrown)
       IN IF ~Ok(h) THEN h
          ELSE fireConnectionEvent([h EXCEPT !.t = toLevel], "rollingBack")

\* rollBack
rollBack(s, lv, env) ==
  LET toLevel == IF ~lv.given THEN s.t - 1 ELSE lv.level IN
  IF toLevel < 0 \/ toLevel >= s.t THEN s
  ELSE LET r == performRollBack(s, toLevel, env)
           h == IF Ok(r) THEN r ELSE handleRollBackException(Catch(r), r.thrown)
       IN IF ~Ok(h) THEN h
          ELSE fireConnectionEvent([h EXCEPT !.t = toLevel], "rollingBack")

\* _handleTransactionException
handleTransactionException(s, e, currentAttempt, maxAttempts, env) ==
  LET d == causedByDeadlock(e) IN
  IF d = TypeError THEN Throw(s, TypeError)
  ELSE IF d = "true" /\ s.t > 1 THEN Throw([s EXCEPT !.t = @ - 1], e)
  ELSE LET rb == rollBack(s, NoLevel, env) IN
       IF ~Ok(rb) THEN rb
       ELSE IF d = "true" /\ currentAttempt < maxAttempts THEN rb
       ELSE Throw(rb, e)

\* The callback given to transaction(): its first cb.k invocations raise
\* cb.err, the later ones return the number of the invocation.
Callbacks == { [k |-> k, err |-> e] : k \in 0..MaxFailures, e \in Messages }

\* transaction: the for loop from currentAttempt on.
RECURSIVE transactionLoop(_, _, _, _, _)
transactionLoop(s, cb, attempts, currentAttempt, env) ==
  IF currentAttempt > attempts THEN s
  ELSE
    LET b == beginTransaction(s, env) IN
    IF ~Ok(b) THEN b
    ELSE
      LET i == b.calls + 1
          called == [b EXCEPT !.calls = i]
          body == IF i <= cb.k THEN Throw(called, cb.err)
                  ELSE LET c == commit(called, env) IN
                       IF Ok(c) THEN [c EXCEPT !.ret = i] ELSE c
      IN
      IF Ok(body) THEN body
      ELSE
        LET h == handleTransactionException(Catch(body), body.thrown,
                                            currentAttempt, attempts, env) IN
        IF Ok(h) THEN transactionLoop(h, cb, attempts, currentAttempt + 1, env)
        ELSE LET rb == rollBack(Catch(h), NoLevel, env) IN
             IF Ok(rb) THEN Throw(rb, h.thrown) ELSE rb

\* transaction
transaction(s, cb, attempts, env) == transactionLoop(s, cb, attempts, 1, env)

\* ---------------------------------------------------------- Connection._run
\* The statement callback given to _run: whether its first and its second
\* execution fail, and the driver message they fail with.
QueryCallbacks == { [fail1 |-> a, fail2 |-> b, err |-> e] :
                    a \in BOOLEAN, b \in BOOLEAN, e \in Messages }

\* _reconnectIfMissingConnection
reconnectIfMissingConnection(s) == IF s.pdo = "null" THEN reconnect(s) ELSE s

\* _runQueryCallback: runs the statement; on failure it means to wrap the
\* error in a QueryException, a class the module never imports, so what is
\* raised is a ReferenceError.
runQueryCallback(s, q) ==
  LET i == s.calls + 1
      r == [s EXCEPT !.calls = i]
  IN IF (i = 1 /\ q.fail1) \/ (i = 2 /\ q.fail2)
     THEN Throw(r, ReferenceError) ELSE [r EXCEPT !.ret = i]

\* _tryAgainIfCausedByLostConnection
tryAgainIfCausedByLostConnection(s, e, q) ==
  LET p == getPrevious(e) IN
  IF p = TypeError THEN Throw(s, TypeError)
  ELSE LET c == causedByLostConnection(p) IN
       IF c = TypeError THEN Throw(s, TypeError)
       ELSE IF c = "true"
            THEN LET r == reconnect(s) IN
                 IF Ok(r) THEN runQueryCallback(r, q) ELSE r
            ELSE Throw(s, e)

\* _handleQueryException
handleQueryException(s, e, q) ==
  IF s.t >= 1 THEN Throw(s, e)
  ELSE tryAgainIfCausedByLostConnection(s, e, q)

\* logQuery: builds a QueryExecuted, which the module never imports.
logQuery(s) == Throw(s, ReferenceError)

\* _run
run(s, q) ==
  LET r0 == reconnectIfMissingConnection(s) IN
  IF ~Ok(r0) THEN r0
  ELSE LET r1 == runQueryCallback(r0, q)
           r2 == IF Ok(r1) THEN r1
                 ELSE handleQueryException(Catch(r1), r1.thrown, q)
       IN IF ~Ok(r2) THEN r2 ELSE logQuery(r2)

\* ----------------------------------------------------------------- actions
NoArg == [env |-> Healthy, lv |-> NoLevel, attempts |-> 0,
          cb |-> [k |-> 0, err |-> "syntax error"],
          q |-> [fail1 |-> FALSE, fail2 |-> FALSE, err |-> "syntax error"]]

Finish(name, a, r) ==
  /\ transactions' = r.t
  /\ pdo' = r.pdo
  /\ op' = name
  /\ arg' = a
  /\ pre' = transactions
  /\ sent' = r.sent
  /\ fired' = r.fired
  /\ thrown' = r.thrown
  /\ calls' = r.calls
  /\ ret' = r.ret
  /\ UNCHANGED <<supportsSavepoints, events, reconnector>>
  /\ UNCHANGED <<scopeVars, attrVars, laterVars>>

BeginTransaction ==
  /\ transactions < MaxDepth
  /\ \E env \in PdoEnvs :
       Finish("beginTransaction", [NoArg EXCEPT !.env = env],
              beginTransaction(Conn, env))

Commit ==
  \E env \in PdoEnvs :
    Finish("commit", [NoArg EXCEPT !.env = env], commit(Conn, env))

Levels == {NoLevel} \cup { Level(n) : n \in -1..(MaxDepth + 1) }

RollBack ==
  \E env \in PdoEnvs, lv \in Levels :
    Finish("rollBack", [NoArg EXCEPT !.env = env, !.lv = lv],
           rollBack(Conn, lv, env))

Transaction ==
  /\ transactions < MaxDepth
  /\ \E env \in TxEnvs, cb \in Callbacks, n \in 0..MaxAttempts :
       Finish("transaction",
              [NoArg EXCEPT !.env = env, !.cb = cb, !.attempts = n],
              transaction(Conn, cb, n, env))

Run ==
  \E q \in QueryCallbacks :
    Finish("run", [NoArg EXCEPT !.q = q], run(Conn, q))

SetPdo ==
  Finish("setPdo", NoArg, setPdo(Conn, "open"))

\* disconnect: setPdo(null).setReadPdo(null)
Disconnect ==
  Finish("disconnect", NoArg, setPdo(Conn, "null"))

\* ------------------------------------------------------- attribute values
\* A raw value: its JavaScript type and its text.  Two objects are the same
\* value only when they are the same object.
Val(t, str) == [t |-> t, s |-> str]
Absent == Val("absent", "")
Null == Val("null", "")
Num1 == Val("number", "1")
Num2 == Val("number", "2")
Str1 == Val("string", "1")
StrX == Val("string", "x")
JsonA == Val("string", "{a:1}")
ObjA == Val("object", "{a:1}")
ObjB == Val("object", "{a:2}")
NaN == Val("number", "NaN")
SyntaxError == Val("throw", "SyntaxError")

\* The model class: three columns, two of them cast.
Keys == {"meta", "name", "votes"}
casts == [meta |-> "json", votes |-> "int"]
ValuesOf ==
  [ meta |-> {JsonA, ObjA, ObjB},
    name |-> {StrX, Str1, Num1},
    votes |-> {Null, Num1, Str1, Num2} ]

\* A freshly constructed model: the constructor's syncOriginal() and
\* fill({}) leave both maps empty.
NewModel ==
  /\ attributes = [k \in Keys |-> Absent]
  /\ original = [k \in Keys |-> Absent]
  /\ mop = "new"
  /\ mkey = ""
  /\ mval = Absent
  /\ changes = {}

\* A freshly constructed builder around a fresh query.
NewBuilder ==
  /\ wheres = <<>>
  /\ scopes = <<>>
  /\ removedScopes = <<>>
  /\ bop = "new"
  /\ barg = <<>>
  /\ preWheres = <<>>
  /\ added = <<>>

\* The model class as declared: no instance made, nothing on the prototype,
\* the default guards of GuardsAttributes.
Instances == {"m1", "m2"}
NoInstance ==
  [ made |-> FALSE, own |-> FALSE,
    attrs |-> [k \in Keys |-> Absent], orig |-> [k \in Keys |-> Absent] ]
DefaultGuards == [fillable |-> <<>>, guarded |-> <<"*">>, unguarded |-> FALSE]
NewClass ==
  /\ proto = [k \in Keys |-> Absent]
  /\ inst = [i \in Instances |-> NoInstance]
  /\ guards = DefaultGuards
  /\ iop = "new"
  /\ iwho = "m1"
  /\ iarg = <<>>
  /\ ithrown = NoError
  /\ preProto = [k \in Keys |-> Absent]
  /\ preInst = [i \in Instances |-> NoInstance]

\* A new model that was never saved, no dispatcher, no listener.
Unsaved ==
  /\ exists = FALSE
  /\ dirty = FALSE
  /\ dispatcher = FALSE
  /\ vetoes = {}
  /\ mapped = {}
  /\ sop = "new"
  /\ sret = "none"
  /\ sthrown = NoError
  /\ stmts = <<>>
  /\ synced = FALSE
  /\ spre = [exists |-> FALSE, dirty |-> FALSE]
  /\ sdirty = {}

\* The classes as loaded: Model declares _booted = {}, its subclasses
\* inherit it, nothing was constructed.
ClassNames == {"Model", "User", "Post"}
Unbooted ==
  /\ booted = [c \in ClassNames |-> [has |-> c = "Model", names |-> {}]]
  /\ stack = <<>>
  /\ runs = [c \in ClassNames |-> 0]
  /\ everBooted = [c \in ClassNames |-> FALSE]
  /\ constructed = [c \in ClassNames |-> FALSE]

\* A builder with nothing to eager load: _eagerLoad = {}.
NoEagerLoad == [arr |-> FALSE, entries |-> <<>>]
NothingEager ==
  /\ eagerLoad = NoEagerLoad
  /\ declaresName = FALSE
  /\ eop = "new"
  /\ epaths = <<>>
  /\ epre = NoEagerLoad
  /\ ethrown = NoError
  /\ rows = 0
  /\ resolved = <<>>
  /\ nestedUnder = <<>>
  /\ installed = <<>>

\* A table nothing was asked of.
NoQueryArg == [single |-> TRUE, ids |-> <<>>, count |-> 0, stopAt |-> 0]
NoResult == [kind |-> "none", promise |-> FALSE, value |-> <<>>]
NothingAsked ==
  /\ qop = "new"
  /\ qarg = NoQueryArg
  /\ qret = NoResult
  /\ qthrown = NoError
  /\ qcalls = <<>>
  /\ requests = <<>>
EmptyTable == table = {} /\ NothingAsked

\* Model declares _ignoreOnTouch = [], its subclasses inherit it.
NothingIgnored ==
  [c \in ClassNames |-> [has |-> c = "Model", classes |-> {}]]
NoTouch ==
  /\ ignoreOnTouch = NothingIgnored
  /\ open = <<>>
  /\ declares = FALSE
  /\ tcall = "new"
  /\ targ = "Model"
  /\ tanswer = FALSE
  /\ updates = 0

NoParents ==
  /\ parents = <<>>
  /\ kop = "new"
  /\ keysOut = <<>>

ExtraIdle == EmptyTable /\ NoTouch /\ NoParents

\* The later components as they are before anything is done with them.
LaterIdle == NewClass /\ Unsaved /\ Unbooted /\ NothingEager /\ ExtraIdle

InitTx ==
  /\ NewBuilder
  /\ NewModel
  /\ LaterIdle
  /\ transactions = 0
  /\ pdo = "open"
  /\ supportsSavepoints \in BOOLEAN
  /\ events \in BOOLEAN
  /\ reconnector \in BOOLEAN
  /\ op = "new"
  /\ arg = NoArg
  /\ pre = 0
  /\ sent = <<>>
  /\ fired = <<>>
  /\ thrown = NoError
  /\ calls = 0
  /\ ret = 0

NextTx ==
  \/ BeginTransaction
  \/ Commit
  \/ RollBack
  \/ Transaction
  \/ Run
  \/ SetPdo
  \/ Disconnect

SpecTx == InitTx /\ [][NextTx]_vars


\* =================================================== scopes and predicates
MaxWheres == 2
MaxRemoved == 2

Columns == {"a", "b", "c"}
Booleans == {"and", "or"}

\* A basic predicate `column = value` joined by `boolean`, and a nested group.
Basic(column, boolean) ==
  [type |-> "Basic", column |-> column, boolean |-> boolean, query |-> <<>>]
Nested(ws, boolean) ==
  [type |-> "Nested", column |-> "", boolean |-> boolean, query |-> ws]

\* query.where(column, ...) / query.orWhere(column, ...): the query builder
\* replaces its list by a longer one.
addWhere(ws, column, boolean) == Append(ws, Basic(column, boolean))

\* What a scope function does to the builder it is given: the predicates it
\* adds, in order.
ScopeBodies ==
  { <<>> } \cup
  { <<Basic(c, b)>> : c \in {"b", "c"}, b \in Booleans } \cup
  { <<Basic("b", b1), Basic("c", b2)>> : b1 \in Booleans, b2 \in Booleans }

RECURSIVE runScope(_, _)
runScope(ws, body) ==
  IF body = <<>> THEN ws
  ELSE runScope(addWhere(ws, body[1].column, body[1].boolean), Tail(body))

\* The global scopes a model class can register, by identifier.
GlobalScopes ==
  [ orB |-> <<Basic("b", "or")>>,
    andC |-> <<Basic("c", "and")>> ]
ScopeIds == DOMAIN GlobalScopes

\* `length > originalWhereCount`, where originalWhereCount holds the array
\* query.wheres itself (line 1054 takes the list, not its length).  The
\* comparison converts the array to a number: the empty array is 0, an array
\* holding predicate objects is NaN, and nothing is greater than NaN.
LengthGreaterThan(n, arr) == arr = <<>> /\ n > 0

\* lodash toInteger of that array, as _.slice applies it to its bounds: 0 for
\* the empty array, and 0 for NaN.
ToInteger(arr) == 0

Slice(ws, from, to) == SubSeq(ws, from + 1, to)

\* _.merge(dest, src) on two arrays: merges index by index, the source's
\* properties win.
LodashMerge(dest, src) ==
  [ i \in 1..MaxOf(Len(dest), Len(src)) |->
      IF i <= Len(src) THEN src[i] ELSE dest[i] ]

\* _createNestedWhere
createNestedWhere(whereSlice, boolean) == Nested(whereSlice, boolean)

\* _groupWhereSliceForScope
groupWhereSliceForScope(ws, whereSlice) ==
  IF \E i \in 1..Len(whereSlice) : whereSlice[i].boolean = "or"
  THEN Append(ws, createNestedWhere(whereSlice, whereSlice[1].boolean))
  ELSE LodashMerge(ws, whereSlice)

\* _addNewWheresWithinGroup
addNewWheresWithinGroup(allWheres, originalWhereCount) ==
  groupWhereSliceForScope(
    groupWhereSliceForScope(<<>>,
      Slice(allWheres, 0, ToInteger(originalWhereCount))),
    Slice(allWheres, ToInteger(originalWhereCount), Len(allWheres)))

\* _callScope, for a scope called with the builder alone.  `sameArray` says
\* whether the wrapped query builder grows its list in place: the array
\* remembered in originalWhereCount then holds the scope's predicates too.
callScope(ws, body, sameArray) ==
  LET after == runScope(ws, body)
      originalWhereCount == IF sameArray THEN after ELSE ws
  IN IF LengthGreaterThan(Len(after), originalWhereCount)
     THEN addNewWheresWithinGroup(after, originalWhereCount)
     ELSE after

\* applyScopes: the forEach over this._scopes.  The copy it works on is made
\* by Object.create from the builder's own properties, so it wraps the same
\* query object.
RECURSIVE applyScopesFrom(_, _, _)
applyScopesFrom(ws, ids, sameArray) ==
  IF ids = <<>> THEN ws
  ELSE applyScopesFrom(callScope(ws, GlobalScopes[ids[1]], sameArray),
                       Tail(ids), sameArray)

applyScopes(ws, ids, sameArray) ==
  IF ids = <<>> THEN ws ELSE applyScopesFrom(ws, ids, sameArray)

\* A scope as withoutGlobalScope is given it: its identifier, or the scope
\* (the function or Scope object) registered under that identifier.
ById(id) == [form |-> "identifier", id |-> id]
ByObject(id) == [form |-> "object", id |-> id]
ScopeArguments == { ById(id) : id \in ScopeIds } \cup
                  { ByObject(id) : id \in ScopeIds }

\* The property name `scopes[scope]` reads: a string is the name itself, a
\* Scope object converts to "[object Object]" (a function to its source text),
\* which is no registered identifier.
ScopeKey(x) == IF x.form = "identifier" THEN x.id ELSE "[object Object]"

\* withoutGlobalScope(scope)
withoutGlobalScope(ids, removed, x) ==
  [ scopes |-> SelectSeq(ids, LAMBDA id : id # ScopeKey(x)),
    removed |-> Append(removed, x) ]

\* withoutGlobalScopes(scopes): NoList stands for a call without argument.
NoList == <<ById("")>>
ScopeLists ==
  { NoList, <<ById("orB")>>, <<ByObject("andC")>>,
    <<ById("andC"), ByObject("orB")>> }

RECURSIVE withoutGlobalScopesFrom(_, _, _)
withoutGlobalScopesFrom(ids, removed, list) ==
  IF list = <<>> THEN [scopes |-> ids, removed |-> removed]
  ELSE LET r == withoutGlobalScope(ids, removed, list[1])
       IN withoutGlobalScopesFrom(r.scopes, r.removed, Tail(list))

withoutGlobalScopes(ids, removed, list) ==
  withoutGlobalScopesFrom(ids, removed,
    IF list = NoList THEN [i \in 1..Len(ids) |-> ById(ids[i])] ELSE list)

\* The bodies of the scopes a call has run.
RECURSIVE bodiesOf(_)
bodiesOf(ids) ==
  IF ids = <<>> THEN <<>> ELSE <<GlobalScopes[ids[1]]>> \o bodiesOf(Tail(ids))

\* ---------------------------------------------------------- builder actions
ScopeStep(name, given, ws, ids, removed, bodies) ==
  /\ wheres' = ws
  /\ scopes' = ids
  /\ removedScopes' = removed
  /\ bop' = name
  /\ barg' = given
  /\ preWheres' = wheres
  /\ added' = bodies
  /\ UNCHANGED <<txVars, attrVars, laterVars>>

BuilderStep(name, ws, ids, bodies) ==
  ScopeStep(name, <<>>, ws, ids, removedScopes, bodies)

\* Model.query(): a new builder around a new query.
NewQuery == ScopeStep("newQuery", <<>>, <<>>, <<>>, <<>>, <<>>)

\* builder.where(...) / builder.orWhere(...), forwarded by __call to the query.
Where ==
  /\ Len(wheres) < MaxWheres
  /\ \E c \in Columns, b \in Booleans :
       BuilderStep("where", addWhere(wheres, c, b), scopes, <<>>)

\* builder.<name>() resolved by __call to the model's scope<Name>.
CallScope ==
  /\ Len(wheres) <= MaxWheres
  /\ \E body \in ScopeBodies, sameArray \in BOOLEAN :
       BuilderStep("callScope", callScope(wheres, body, sameArray), scopes,
                   <<body>>)

\* withGlobalScope(identifier, scope).  A scope that was removed from the
\* builder is not registered on it again.
WithGlobalScope ==
  \E id \in ScopeIds :
    /\ \A i \in 1..Len(scopes) : scopes[i] # id
    /\ \A i \in 1..Len(removedScopes) : removedScopes[i].id # id
    /\ BuilderStep("withGlobalScope", wheres, Append(scopes, id), <<>>)

\* withoutGlobalScope(scope), given the identifier or the scope itself.
WithoutGlobalScope ==
  /\ Len(removedScopes) < MaxRemoved
  /\ \E x \in ScopeArguments :
       LET r == withoutGlobalScope(scopes, removedScopes, x)
       IN ScopeStep("withoutGlobalScope", <<x>>, wheres, r.scopes, r.removed,
                    <<>>)

\* withoutGlobalScopes(scopes), given a list or nothing.
WithoutGlobalScopes ==
  /\ Len(removedScopes) < MaxRemoved
  /\ \E list \in ScopeLists :
       LET r == withoutGlobalScopes(scopes, removedScopes, list)
       IN /\ Len(r.removed) <= MaxRemoved + 1
          /\ ScopeStep("withoutGlobalScopes", list, wheres, r.scopes,
                       r.removed, <<>>)

ApplyScopes ==
  /\ Len(wheres) <= MaxWheres
  /\ \E sameArray \in BOOLEAN :
       BuilderStep("applyScopes", applyScopes(wheres, scopes, sameArray),
                   scopes, bodiesOf(scopes))

\* The connection is left as constructed while the builder is exercised.
TxIdle ==
  /\ transactions = 0
  /\ pdo = "open"
  /\ supportsSavepoints = TRUE
  /\ events = FALSE
  /\ reconnector = FALSE
  /\ op = "new"
  /\ arg = NoArg
  /\ pre = 0
  /\ sent = <<>>
  /\ fired = <<>>
  /\ thrown = NoError
  /\ calls = 0
  /\ ret = 0

InitScope == TxIdle /\ NewBuilder /\ NewModel /\ LaterIdle

NextScope ==
  \/ NewQuery
  \/ Where
  \/ CallScope
  \/ WithGlobalScope
  \/ WithoutGlobalScope
  \/ WithoutGlobalScopes
  \/ ApplyScopes

SpecScope == InitScope /\ [][NextScope]_vars

\* ------------------------------------------------------------ scope claims
\* The truth value of a predicate list under a valuation (the set of columns
\* whose basic predicate is true), as the compiled WHERE clause reads: the
\* first connective is dropped and AND binds tighter than OR.
RECURSIVE Holds(_, _)
RECURSIVE HoldsFrom(_, _, _, _, _)
Value(w, v) == IF w.type = "Nested" THEN Holds(w.query, v) ELSE w.column \in v
HoldsFrom(ws, i, orAcc, andAcc, v) ==
  IF i > Len(ws) THEN orAcc \/ andAcc
  ELSE IF ws[i].boolean = "and"
       THEN HoldsFrom(ws, i + 1, orAcc, andAcc /\ Value(ws[i], v), v)
       ELSE HoldsFrom(ws, i + 1, orAcc \/ andAcc, Value(ws[i], v), v)
Holds(ws, v) ==
  IF ws = <<>> THEN TRUE ELSE HoldsFrom(ws, 2, FALSE, Value(ws[1], v), v)

\* The last operation ran exactly one scope, on a builder that already had a
\* predicate, and the scope added an 'or'-joined predicate.
ScopeAddedOr ==
  /\ bop \in {"callScope", "applyScopes"}
  /\ preWheres # <<>>
  /\ Len(added) = 1
  /\ \E i \in 1..Len(added[1]) : added[1][i].boolean = "or"

\* C1: a scope that adds an 'or'-joined predicate to a builder holding the
\* caller's predicates leaves a list that means (caller's predicates) AND
\* (scope's predicates), the scope's predicates sitting in a nested group of
\* their own.
C1_ScopeKeepsCallerPredicates ==
  ScopeAddedOr =>
    /\ \A v \in SUBSET Columns :
         Holds(wheres, v) <=> (Holds(preWheres, v) /\ Holds(added[1], v))
    /\ wheres[Len(wheres)].type = "Nested"
    /\ wheres[Len(wheres)].query = added[1]

\* The scopes an operation has run, by identifier.
RanScope(id) == \E i \in 1..Len(added) : added[i] = GlobalScopes[id]
IsApplied(id) == \E i \in 1..Len(scopes) : scopes[i] = id
IsRemoved(id) == \E i \in 1..Len(removedScopes) : removedScopes[i].id = id

\* C21: applyScopes() on a builder without applied scope leaves the query as
\* it is, and with applied scopes it works on a copy: the predicate list of
\* the original builder's query is the same before and after, however often
\* it is called.
C21_ApplyScopesLeavesOriginal ==
  bop = "applyScopes" => wheres = preWheres

\* C22: after withoutGlobalScope(x) the scope is no longer applied and is
\* among the removed ones, whether x is its identifier or the scope itself;
\* withoutGlobalScopes() without argument removes every applied scope; and
\* applyScopes() runs no removed scope.
C22_RemovedScopeNotApplied ==
  /\ bop = "withoutGlobalScope" =>
       ~IsApplied(barg[1].id) /\ IsRemoved(barg[1].id)
  /\ (bop = "withoutGlobalScopes" /\ barg = NoList) => scopes = <<>>
  /\ bop = "applyScopes" =>
       \A id \in ScopeIds : IsRemoved(id) => ~RanScope(id)


\* ======================================================== model attributes
\* getCasts(): the declared casts (the incrementing key's cast is not among
\* the modelled columns).
getCasts == casts

\* _getCastType(key): no declared cast is a custom date or a decimal.
getCastType(key) == getCasts[key]

\* String.prototype.includes(types) as hasCast calls it: the array of type
\* names is converted to the comma-joined string, which is what is searched
\* for in the cast type.  No cast type contains the joined names of two or
\* more types.
CastTypeIncludes(castType, types) ==
  IF Len(types) >= 2 THEN FALSE ELSE castType = types[1]

\* hasCast(key, types); types = <<>> stands for the omitted argument.
hasCast(key, types) ==
  IF key \in DOMAIN getCasts
  THEN IF types # <<>> THEN CastTypeIncludes(getCastType(key), types) ELSE TRUE
  ELSE FALSE

\* _isDateCastable / _isJsonCastable
isDateCastable(key) == hasCast(key, <<"date", "datetime">>)
isJsonCastable(key) ==
  hasCast(key, <<"array", "json", "object", "collection">>)

\* getDates(): the timestamp columns, none of which is modelled.
getDates == {"created_at", "updated_at"}

\* _isDateAttribute
isDateAttribute(key) == key \in getDates \/ isDateCastable(key)

\* _asJson: JSON.stringify.
asJson(value) == Val("string", value.s)

\* fromDateTime: a falsy value is returned as it is, anything else is parsed
\* and written in the storage date format.
fromDateTime(value) ==
  IF value = Null THEN value ELSE Val("string", "date " \o value.s)

\* fromJson: JSON.parse of the value's text.  An object's text is
\* "[object Object]", which does not parse; a parsed structure is a new
\* object each time.
fromJson(value) ==
  IF value.t = "object" \/ value = StrX \/ value = NaN THEN SyntaxError
  ELSE IF value.s \in {"1", "2"} THEN Val("number", value.s)
  ELSE Val("parsed", value.s)

\* parseInt / parseFloat on the modelled values.
parseNumber(value) ==
  IF value.s \in {"1", "2"} THEN Val("number", value.s) ELSE NaN

\* _castAttribute
castAttribute(key, value) ==
  IF value = Null THEN value
  ELSE IF getCastType(key) = "int" THEN parseNumber(value)
  ELSE IF getCastType(key) = "json" THEN fromJson(value)
  ELSE value

\* a === b
StrictEquals(a, b) ==
  /\ a = b
  /\ a # NaN
  /\ a.t # "parsed"

\* !isNaN(parseFloat(x)) && isFinite(x)
IsNumeric(value) == parseNumber(value) # NaN

\* _originalIsEquivalent(key, current): "true", "false" or "SyntaxError".
originalIsEquivalent(orig, key, current) ==
  IF orig[key] = Absent THEN "false"
  ELSE IF StrictEquals(current, orig[key]) THEN "true"
  ELSE IF current = Null THEN "false"
  ELSE IF isDateAttribute(key)
       THEN IF StrictEquals(fromDateTime(current), fromDateTime(orig[key]))
            THEN "true" ELSE "false"
  ELSE IF hasCast(key, <<>>)
       THEN LET c == castAttribute(key, current)
                o == castAttribute(key, orig[key])
            IN IF c = SyntaxError \/ o = SyntaxError THEN "SyntaxError"
               ELSE IF StrictEquals(c, o) THEN "true" ELSE "false"
  ELSE IF IsNumeric(current) /\ IsNumeric(orig[key])
          /\ current.s = orig[key].s
       THEN "true" ELSE "false"

\* getDirty(): the keys it reports, and whether it raised instead.
getDirty(attrs, orig) ==
  [ threw |-> \E k \in Keys :
                attrs[k] # Absent
                /\ originalIsEquivalent(orig, k, attrs[k]) = "SyntaxError",
    keys  |-> { k \in Keys :
                attrs[k] # Absent
                /\ originalIsEquivalent(orig, k, attrs[k]) = "false" } ]

\* _hasChanges(chg, attributes) for the calls isDirty() and isDirty(key):
\* `attributes` is then the arguments object, which is no array.
hasChanges(chg, keys) ==
  IF Len(keys) = 0 THEN chg # {}
  ELSE \E i \in 1..Len(keys) : keys[i] \in chg

\* isDirty() and isDirty(key): "true", "false" or "SyntaxError".
isDirty(attrs, orig, keys) ==
  LET d == getDirty(attrs, orig) IN
  IF d.threw THEN "SyntaxError"
  ELSE IF hasChanges(d.keys, keys) THEN "true" ELSE "false"

\* setAttribute(key, value) for a key with no set-mutator and no "->".
setAttribute(attrs, key, value) ==
  LET v1 == IF value # Null /\ isDateAttribute(key)
            THEN fromDateTime(value) ELSE value
      v2 == IF isJsonCastable(key) /\ v1 # Null THEN asJson(v1) ELSE v1
  IN [attrs EXCEPT ![key] = v2]

\* syncOriginal()
syncOriginal(attrs) == attrs

\* The values a caller passes to isDirty / isClean / wasChanged: a string,
\* an array, null, nothing at all (undefined), and the `arguments` object
\* the functions build from what they were called with.
JsString(str) == [t |-> "string", s |-> str, items |-> <<>>]
JsArray(items) == [t |-> "array", s |-> "", items |-> items]
JsArguments(items) == [t |-> "arguments", s |-> "", items |-> items]
JsNull == [t |-> "null", s |-> "", items |-> <<>>]
JsUndefined == [t |-> "undefined", s |-> "", items |-> <<>>]

\* The first declared parameter of a call made with the values args.
FirstParameter(args) == IF Len(args) >= 1 THEN args[1] ELSE JsUndefined

\* `x in changes` converts x to a property name: a string is itself, an
\* array is its elements joined by commas, an arguments object is
\* "[object Arguments]".
RECURSIVE JoinKeys(_)
RECURSIVE PropertyKey(_)
JoinKeys(items) ==
  IF items = <<>> THEN ""
  ELSE IF Len(items) = 1 THEN PropertyKey(items[1])
  ELSE PropertyKey(items[1]) \o "," \o JoinKeys(Tail(items))
PropertyKey(v) ==
  IF v.t = "string" THEN v.s
  ELSE IF v.t = "array" THEN JoinKeys(v.items)
  ELSE IF v.t = "arguments" THEN "[object Arguments]"
  ELSE v.t

\* attributes instanceof Array ? attributes : arguments, unless null
ArrayOrArguments(args) ==
  LET a == FirstParameter(args) IN
  IF a = JsNull THEN a
  ELSE IF a.t = "array" THEN a ELSE JsArguments(args)

\* _hasChanges(changes, attributes) for any value of attributes
hasChangesIn(chg, attributesIn) ==
  LET a == IF attributesIn.t = "array" THEN JsArray(<<attributesIn>>)
           ELSE attributesIn
  IN IF a.t \in {"null", "undefined"} \/ Len(a.items) = 0 THEN chg # {}
     ELSE \E n \in 1..Len(a.items) : PropertyKey(a.items[n]) \in chg

\* isDirty called with the values args: TRUE or FALSE (getDirty not raising)
isDirtyCall(attrs, orig, args) ==
  hasChangesIn(getDirty(attrs, orig).keys, ArrayOrArguments(args))

\* isClean called with the values args
isCleanCall(attrs, orig, args) ==
  ~isDirtyCall(attrs, orig, <<ArrayOrArguments(args)>>)

\* getChanges / wasChanged called with the values args
getChanges(chg) == chg
wasChangedCall(chg, args) ==
  hasChangesIn(getChanges(chg), ArrayOrArguments(args))

\* ------------------------------------------------------------ model actions
AttrStep(name, key, value, attrs, orig) ==
  /\ attributes' = attrs
  /\ original' = orig
  /\ mop' = name
  /\ mkey' = key
  /\ mval' = value
  /\ changes' = changes
  /\ UNCHANGED <<txVars, scopeVars, laterVars>>

ModelStep(name, key, attrs, orig) == AttrStep(name, key, Absent, attrs, orig)

SetAttribute ==
  \E k \in Keys : \E v \in ValuesOf[k] :
    AttrStep("setAttribute", k, v, setAttribute(attributes, k, v), original)

SyncOriginal ==
  /\ mop # "syncOriginal"
  /\ ModelStep("syncOriginal", "", attributes, syncOriginal(attributes))

\* syncChanges(): this._changes = this.getDirty(); nothing is assigned when
\* getDirty raises.
syncChanges(attrs, orig, old) ==
  IF getDirty(attrs, orig).threw THEN old ELSE getDirty(attrs, orig).keys

SyncChanges ==
  /\ mop # "syncChanges"
  /\ changes' = syncChanges(attributes, original, changes)
  /\ mop' = "syncChanges"
  /\ mkey' = ""
  /\ mval' = Absent
  /\ UNCHANGED <<attributes, original, txVars, scopeVars, laterVars>>

InitAttr == TxIdle /\ NewBuilder /\ NewModel /\ LaterIdle

NextAttr ==
  \/ SetAttribute
  \/ SyncOriginal
  \/ SyncChanges

SpecAttr == InitAttr /\ [][NextAttr]_vars

\* ------------------------------------------------------- attribute claims
\* What a stored value stands for, the way the dirty check is specified to
\* compare: a cast column by its cast value, a numeric-looking value by its
\* number, anything else by itself.
Meaning(key, value) ==
  IF key \in DOMAIN casts /\ casts[key] = "json" THEN Val("content", value.s)
  ELSE IF value # Null /\ parseNumber(value) # NaN THEN parseNumber(value)
  ELSE value

Equivalent(key, a, b) == Meaning(key, a) = Meaning(key, b)

\* The casts of the JSON family.
JsonCasts == {"array", "json", "object", "collection"}

\* C26: setAttribute(key, value) on a key whose declared cast is of the JSON
\* family stores the JSON-encoded string of value, null being stored as
\* null.
C26_JsonCastStoredEncoded ==
  (mop = "setAttribute" /\ mkey \in DOMAIN casts /\ casts[mkey] \in JsonCasts)
  => attributes[mkey] = (IF mval = Null THEN Null ELSE asJson(mval))

\* C10: right after syncOriginal() nothing is dirty; after setAttribute(k, v)
\* with a value not equivalent to the original of k, or with k absent from
\* original, isDirty(k) is true and getDirty() holds k; after setting k to a
\* value equivalent to its original, k is clean.
C10_DirtyRoundTrip ==
  /\ mop = "syncOriginal"
     => /\ isDirty(attributes, original, <<>>) = "false"
        /\ getDirty(attributes, original) = [threw |-> FALSE, keys |-> {}]
  /\ (mop = "setAttribute"
        /\ (original[mkey] = Absent
            \/ ~Equivalent(mkey, attributes[mkey], original[mkey])))
     => /\ isDirty(attributes, original, <<mkey>>) = "true"
        /\ mkey \in getDirty(attributes, original).keys
  /\ (mop = "setAttribute" /\ original[mkey] # Absent
        /\ Equivalent(mkey, attributes[mkey], original[mkey]))
     => isDirty(attributes, original, <<mkey>>) = "false"

\* The ways of passing the keys: nothing, null, one key, a list of keys.
MaxListed == 2
KeyLists ==
  UNION { [1..n -> { JsString(k) : k \in Keys }] : n \in 1..MaxListed }
CallForms ==
  {<<>>, <<JsNull>>}
    \cup { <<JsString(k)>> : k \in Keys }
    \cup { <<JsArray(l)>> : l \in KeyLists }

\* The keys a call asks about, and the answer the keys and a set of changed
\* keys call for.
AskedKeys(args) ==
  IF args = <<>> \/ args[1] = JsNull THEN Keys
  ELSE IF args[1].t = "string" THEN {args[1].s}
  ELSE { args[1].items[n].s : n \in 1..Len(args[1].items) }
AnyChanged(chg, args) == AskedKeys(args) \cap chg # {}

\* C12: isDirty with a list of keys of any length is true iff one of the
\* listed keys is in getDirty(), with one key iff that key is dirty, with no
\* argument iff getDirty() is not empty; wasChanged answers the same about
\* the changes snapshot.
C12_DirtyForKeyLists ==
  ~getDirty(attributes, original).threw
  => \A args \in CallForms :
       /\ isDirtyCall(attributes, original, args)
            = AnyChanged(getDirty(attributes, original).keys, args)
       /\ wasChangedCall(changes, args) = AnyChanged(changes, args)

\* C13: isClean is the negation of isDirty for every way of passing the
\* keys; isClean() is false whenever an attribute is dirty.
C13_CleanNegatesDirty ==
  ~getDirty(attributes, original).threw
  => \A args \in CallForms :
       isCleanCall(attributes, original, args)
         = ~isDirtyCall(attributes, original, args)

\* ------------------------------------------------- transaction-manager claims
\* How many statements of a kind the last operation sent.
CountKind(kind) == Cardinality({ i \in 1..Len(sent) : sent[i].kind = kind })

\* The driver was connected and failed on nothing during the last operation.
DriverOk == pdo = "open" /\ arg.env = Healthy

\* The callback of the last transaction() raised a deadlock-classified
\* error on its first k invocations (k >= 1).
DeadlockingCallback == arg.cb.k >= 1 /\ arg.cb.err \in DeadlockMessages

\* C2: transaction(callback, n) at depth 0 with a callback that raises a
\* deadlock on its first k invocations and then succeeds, n > k: the callback
\* runs k+1 times, each attempt begins a real transaction, one commit is sent,
\* the result of invocation k+1 is returned and the depth ends at 0.
C2_DeadlockRetriedUntilSuccess ==
  (op = "transaction" /\ pre = 0 /\ DriverOk /\ ~events
     /\ DeadlockingCallback /\ arg.attempts > arg.cb.k)
  => /\ calls = arg.cb.k + 1
     /\ CountKind("begin") = arg.cb.k + 1
     /\ CountKind("commit") = 1
     /\ ret = arg.cb.k + 1
     /\ thrown = NoError
     /\ transactions = 0

\* C3: transaction(callback, n) at depth 0 with a callback that raises a
\* deadlock on each of its first k invocations, 1 <= n <= k: the callback runs
\* n times, the deadlock error is re-thrown, nothing is committed and the
\* depth ends at 0.
C3_DeadlockAttemptsExhausted ==
  (op = "transaction" /\ pre = 0 /\ DriverOk /\ ~events
     /\ DeadlockingCallback /\ arg.attempts >= 1 /\ arg.attempts <= arg.cb.k)
  => /\ calls = arg.attempts
     /\ thrown = arg.cb.err
     /\ CountKind("commit") = 0
     /\ transactions = 0

\* C4: transaction() nested in an active transaction whose callback raises a
\* deadlock: the callback is not re-invoked, the same error is re-thrown, the
\* depth ends one below the depth during the callback, and no rollback of
\* either sort is sent.
C4_NestedDeadlockNotRetried ==
  (op = "transaction" /\ pre >= 1 /\ DriverOk /\ ~events
     /\ DeadlockingCallback /\ arg.attempts >= 1)
  => /\ calls = 1
     /\ thrown = arg.cb.err
     /\ transactions = pre
     /\ CountKind("rollback") = 0
     /\ CountKind("rollback_to") = 0

\* C27: transaction() nested in an active transaction at depth d >= 1 (on a
\* grammar with savepoints) whose callback raises an error that is no
\* deadlock: the savepoint made for this call is the one thing rolled back,
\* no real rollback is sent, the callback's error is re-thrown and the depth
\* is d again.
C27_NestedFailureRollsBackOneLevel ==
  (op = "transaction" /\ pre >= 1 /\ DriverOk /\ ~events
     /\ supportsSavepoints /\ arg.attempts >= 1
     /\ arg.cb.k >= 1 /\ arg.cb.err \notin DeadlockMessages)
  => /\ calls = 1
     /\ sent = <<Stmt("savepoint", pre + 1), Stmt("rollback_to", pre + 1)>>
     /\ thrown = arg.cb.err
     /\ transactions = pre

\* C5: with a connected driver that does not fail, beginTransaction sends a
\* real begin exactly at depth 0, only a savepoint (when supported) at depth
\* >= 1, and raises the depth by 1; commit sends a real commit exactly at
\* depth 1, nothing otherwise, and sets the depth to max(0, depth-1).
C5_BeginCommitEffects ==
  /\ (op = "beginTransaction" /\ DriverOk)
     => /\ transactions = pre + 1
        /\ sent = IF pre = 0 THEN <<Stmt("begin", 0)>>
                  ELSE IF supportsSavepoints
                       THEN <<Stmt("savepoint", pre + 1)>> ELSE <<>>
  /\ (op = "commit" /\ DriverOk)
     => /\ transactions = MaxOf(0, pre - 1)
        /\ sent = IF pre = 1 THEN <<Stmt("commit", 0)>> ELSE <<>>

\* A nested beginTransaction has created its savepoint.
C5_Witness ==
  /\ op = "beginTransaction" /\ DriverOk /\ pre = 1
  /\ sent = <<Stmt("savepoint", 2)>> /\ transactions = 2

\* C6: the depth is never negative, whatever operations are interleaved, and
\* commit or rollBack called at depth 0 leaves it at 0.
C6_DepthNonNegative ==
  /\ transactions \in Nat
  /\ (op \in {"commit", "rollBack"} /\ pre = 0) => transactions = 0

\* commit was called with no transaction active.
C6_Witness == op = "commit" /\ pre = 0 /\ transactions = 0 /\ thrown = NoError

\* The level the last rollBack aimed at.
RollBackTarget == IF arg.lv.given THEN arg.lv.level ELSE pre - 1

\* C7: rollBack to a level outside [0, depth) changes nothing, sends nothing
\* and fires nothing; to a level inside the range (driver not failing) it
\* sends a real rollback iff the level is 0, otherwise a rollback to the
\* savepoint of level+1 when savepoints are supported, and the depth becomes
\* the level.
C7_RollBackEffects ==
  op = "rollBack" =>
    /\ (RollBackTarget < 0 \/ RollBackTarget >= pre)
       => transactions = pre /\ sent = <<>> /\ fired = <<>> /\ thrown = NoError
    /\ (RollBackTarget >= 0 /\ RollBackTarget < pre /\ DriverOk)
       => /\ transactions = RollBackTarget
          /\ sent = IF RollBackTarget = 0 THEN <<Stmt("rollback", 0)>>
                    ELSE IF supportsSavepoints
                         THEN <<Stmt("rollback_to", RollBackTarget + 1)>>
                         ELSE <<>>

\* rollBack(1) at depth 3 went back to the savepoint of level 2.
C7_Witness ==
  /\ op = "rollBack" /\ arg.lv = Level(1) /\ pre = 3 /\ DriverOk
  /\ transactions = 1 /\ sent = <<Stmt("rollback_to", 2)>>

\* The driver failed on the statement the last rollBack sent.
RollBackFailed ==
  op = "rollBack" /\ sent # <<>> /\ sent[Len(sent)].kind \in arg.env.fail

\* C8: when the rollback statement fails with a lost-connection error the
\* depth is 0 when the error is re-thrown; with any other error the depth is
\* unchanged; either way the error reaches the caller and no notification is
\* fired.
C8_RollBackFailure ==
  RollBackFailed =>
    /\ (arg.env.err \in LostConnectionMessages => transactions = 0)
    /\ (arg.env.err \notin LostConnectionMessages => transactions = pre)
    /\ thrown = arg.env.err
    /\ fired = <<>>

\* C9: a statement whose first execution fails is executed a second time
\* (after a reconnect) iff the failure is a lost connection and the depth is
\* 0; otherwise it is executed once and the error propagates; a failing
\* second execution is not retried.
C9_StatementRetriedOnce ==
  (op = "run" /\ reconnector /\ calls >= 1 /\ arg.q.fail1)
  => /\ (calls = 2) <=> (arg.q.err \in LostConnectionMessages /\ pre = 0)
     /\ calls <= 2
     /\ (calls = 1 \/ arg.q.fail2) => thrown # NoError


\* ================================================= instances of one class
\* this._attributes as an instance reads it: its own map once one has been
\* assigned to it (setRawAttributes), the prototype's map until then.
AttrsOf(p, r) == IF r.own THEN r.attrs ELSE p

\* a === b for two arrays: getGuarded() returns a fresh copy and ['*'] is a
\* fresh literal, and two distinct array objects are never identical.
ArraysIdentical(a, b) == FALSE

\* key.startsWith('_'): no modelled column begins with an underscore.
StartsWithUnderscore(key) == FALSE

InSeq(x, seq) == \E n \in 1..Len(seq) : seq[n] = x

\* getFillable / getGuarded
getFillable(g) == g.fillable
getGuarded(g) == g.guarded

\* isGuarded(key)
isGuarded(g, key) ==
  InSeq(key, getGuarded(g)) \/ ArraysIdentical(getGuarded(g), <<"*">>)

\* totallyGuarded()
totallyGuarded(g) ==
  Len(getFillable(g)) = 0 /\ ArraysIdentical(getGuarded(g), <<"*">>)

\* isFillable(key)
isFillable(g, key) ==
  IF g.unguarded THEN TRUE
  ELSE IF InSeq(key, getFillable(g)) THEN TRUE
  ELSE IF isGuarded(g, key) THEN FALSE
  ELSE Len(getFillable(g)) = 0 /\ ~StartsWithUnderscore(key)

\* _fillableFromArray(attributes): attributes are <<key, value>> pairs in
\* the order the object lists them.
RECURSIVE pickFillable(_, _)
pickFillable(g, pairs) ==
  IF pairs = <<>> THEN <<>>
  ELSE IF InSeq(Head(pairs)[1], getFillable(g))
       THEN <<Head(pairs)>> \o pickFillable(g, Tail(pairs))
       ELSE pickFillable(g, Tail(pairs))

fillableFromArray(g, pairs) ==
  IF Len(getFillable(g)) > 0 /\ ~g.unguarded THEN pickFillable(g, pairs)
  ELSE pairs

\* The class and one of its instances while a method of the instance runs.
Obj(p, r) == [proto |-> p, r |-> r, thrown |-> NoError]

\* this._attributes[key] = value at the end of setAttribute: the write goes
\* to whichever map this._attributes resolves to.
setAttributeOn(o, key, value) ==
  IF o.r.own
  THEN [o EXCEPT !.r.attrs = setAttribute(o.r.attrs, key, value)]
  ELSE [o EXCEPT !.proto = setAttribute(o.proto, key, value)]

\* fill(attributes): the forEach over the fillable attributes.
RECURSIVE fillEach(_, _, _, _)
fillEach(o, g, pairs, guardedTotally) ==
  IF pairs = <<>> THEN o
  ELSE LET key == Head(pairs)[1]
           value == Head(pairs)[2]
       IN IF isFillable(g, key)
          THEN fillEach(setAttributeOn(o, key, value), g, Tail(pairs),
                        guardedTotally)
          ELSE IF guardedTotally
               THEN [o EXCEPT !.thrown = "MassAssignmentError"]
               ELSE fillEach(o, g, Tail(pairs), guardedTotally)

fill(o, g, pairs) ==
  fillEach(o, g, fillableFromArray(g, pairs), totallyGuarded(g))

\* syncOriginal() on an instance: this._original becomes an own copy of
\* this._attributes.
syncOriginalOn(o) ==
  [o EXCEPT !.r.orig = syncOriginal(AttrsOf(o.proto, o.r))]

\* new Model(attributes): _bootIfNotBooted(), syncOriginal(), fill().
construct(p, g, pairs) ==
  fill(syncOriginalOn(Obj(p, [NoInstance EXCEPT !.made = TRUE])), g, pairs)

\* setRawAttributes(attributes, sync)
setRawAttributes(o, row, sync) ==
  LET o1 == [o EXCEPT !.r.own = TRUE, !.r.attrs = row]
  IN IF sync THEN syncOriginalOn(o1) ELSE o1

\* newFromBuilder(attributes): newInstance({}, true), then
\* setRawAttributes(attributes, true).
newFromBuilder(p, g, row) == setRawAttributes(construct(p, g, <<>>), row, TRUE)

\* ------------------------------------------------------- instance actions
Pair(k, v) == <<k, v>>
FillInputs ==
  { <<>>,
    <<Pair("name", StrX)>>,
    <<Pair("votes", Num1)>>,
    <<Pair("name", StrX), Pair("votes", Num2)>> }
Rows == { [meta |-> Absent, name |-> Str1, votes |-> Num1] }
GuardConfigs ==
  { [fillable |-> f, guarded |-> gd, unguarded |-> u] :
      f \in {<<>>, <<"name">>}, gd \in {<<"*">>, <<"votes">>},
      u \in BOOLEAN }

InstStep(name, i, pairs, o) ==
  /\ iop' = name
  /\ iwho' = i
  /\ iarg' = pairs
  /\ ithrown' = o.thrown
  /\ preProto' = proto
  /\ preInst' = inst
  /\ proto' = o.proto
  /\ inst' = [inst EXCEPT ![i] = o.r]
  /\ UNCHANGED <<guards, txVars, scopeVars, attrVars, saveVars, bootVars,
                 eagerVars, extraVars>>

\* new Model(attributes); an instance whose construction raised is never
\* handed to the caller.
Construct ==
  \E i \in Instances : \E pairs \in FillInputs :
    /\ ~inst[i].made
    /\ LET o == construct(proto, guards, pairs)
       IN InstStep("construct", i, pairs,
                   IF o.thrown = NoError THEN o
                   ELSE [o EXCEPT !.r = NoInstance])

\* A row hydrated by the builder.
NewFromBuilder ==
  \E i \in Instances : \E row \in Rows :
    /\ ~inst[i].made
    /\ InstStep("newFromBuilder", i, <<>>, newFromBuilder(proto, guards, row))

InstSetAttribute ==
  \E i \in Instances : \E pairs \in FillInputs :
    /\ inst[i].made
    /\ Len(pairs) = 1
    /\ InstStep("setAttribute", i, pairs,
                setAttributeOn(Obj(proto, inst[i]), pairs[1][1], pairs[1][2]))

Fill ==
  \E i \in Instances : \E pairs \in FillInputs :
    /\ inst[i].made
    /\ InstStep("fill", i, pairs, fill(Obj(proto, inst[i]), guards, pairs))

InstSyncOriginal ==
  \E i \in Instances :
    /\ inst[i].made
    /\ iop # "syncOriginal"
    /\ InstStep("syncOriginal", i, <<>>, syncOriginalOn(Obj(proto, inst[i])))

InitInst ==
  /\ TxIdle /\ NewBuilder /\ NewModel /\ Unsaved /\ Unbooted /\ NothingEager
  /\ ExtraIdle
  /\ proto = [k \in Keys |-> Absent]
  /\ inst = [i \in Instances |-> NoInstance]
  /\ guards \in GuardConfigs
  /\ iop = "new"
  /\ iwho = "m1"
  /\ iarg = <<>>
  /\ ithrown = NoError
  /\ preProto = [k \in Keys |-> Absent]
  /\ preInst = [i \in Instances |-> NoInstance]

NextInst ==
  \/ Construct
  \/ NewFromBuilder
  \/ InstSetAttribute
  \/ Fill
  \/ InstSyncOriginal

SpecInst == InitInst /\ [][NextInst]_vars

\* -------------------------------------------------------- instance claims
\* What an instance shows to its user: its attributes, its original
\* snapshot and its dirty keys.
Shown(p, r) ==
  [ attrs |-> AttrsOf(p, r), orig |-> r.orig,
    dirty |-> getDirty(AttrsOf(p, r), r.orig) ]

\* C11: setAttribute or fill on one instance leaves the attributes, the
\* original snapshot and the dirty status of every other instance as they
\* were, and a model constructed with no attributes has no attributes.
C11_PerInstanceStorage ==
  /\ iop \in {"setAttribute", "fill"}
     => \A j \in Instances \ {iwho} :
          preInst[j].made => Shown(proto, inst[j]) = Shown(preProto, preInst[j])
  /\ (iop = "construct" /\ iarg = <<>>)
     => AttrsOf(proto, inst[iwho]) = [k \in Keys |-> Absent]

\* C14: fill on a totally guarded model (no fillable key, guarded ['*'],
\* class not unguarded) raises a mass-assignment error at the first key and
\* sets nothing; with guarded ['*'] no key outside the fillable list is
\* fillable.
C14_TotallyGuardedFill ==
  /\ (iop = "fill" /\ iarg # <<>> /\ guards = DefaultGuards)
     => /\ ithrown = "MassAssignmentError"
        /\ AttrsOf(proto, inst[iwho]) = AttrsOf(preProto, preInst[iwho])
  /\ (guards.guarded = <<"*">> /\ ~guards.unguarded)
     => \A k \in Keys : ~InSeq(k, guards.fillable) => ~isFillable(guards, k)


\* ======================================================= save and delete
HookEvents == {"saving", "creating", "updating", "deleting"}

\* dispatcher.until(event) / dispatcher.fire(event): the answer of the
\* listeners the dispatcher holds for the event.
dispatch(vt, event) == IF event \in vt THEN "false" ELSE "null"

\* _fireCustomModelEvent(event, method): nothing for an event that is not in
\* _dispatchesEvents; otherwise the dispatcher is used without a test, which
\* raises a TypeError when none is set.
fireCustomModelEvent(d, mp, vt, event) ==
  IF event \notin mp THEN "undefined"
  ELSE IF d THEN dispatch(vt, event) ELSE TypeError

\* _filterModelEventResults: an array is filtered, anything else returned.
filterModelEventResults(result) == result

\* _fireModelEvent(event, halt): "true", "false", "null" or TypeError.
fireModelEvent(d, mp, vt, event) ==
  IF d THEN "true"
  ELSE LET result ==
             filterModelEventResults(fireCustomModelEvent(d, mp, vt, event))
       IN IF result = TypeError THEN TypeError
          ELSE IF result = "false" THEN "false"
          ELSE IF result \notin {"undefined", "null"} THEN result
          ELSE IF d THEN dispatch(vt, event) ELSE "null"

\* The model while save() or delete() runs.
Saving ==
  [ exists |-> exists, dirty |-> dirty, stmts |-> <<>>, synced |-> FALSE,
    thrown |-> NoError, ret |-> "none" ]

Fire(event) == fireModelEvent(dispatcher, mapped, vetoes, event)
Raise(m, e) == [m EXCEPT !.thrown = e]
Return(m, v) == [m EXCEPT !.ret = v]
Execute(m, stmt) == [m EXCEPT !.stmts = Append(@, stmt)]

\* _performUpdate(query)
performUpdate(m) ==
  IF Fire("updating") = TypeError THEN Raise(m, TypeError)
  ELSE IF Fire("updating") = "false" THEN Return(m, "false")
  ELSE IF m.dirty
       THEN IF Fire("updated") = TypeError
            THEN Raise(Execute(m, "update"), TypeError)
            ELSE Return(Execute(m, "update"), "true")
       ELSE Return(m, "true")

\* _performInsert(query)
performInsert(m) ==
  IF Fire("creating") = TypeError THEN Raise(m, TypeError)
  ELSE IF Fire("creating") = "false" THEN Return(m, "false")
  ELSE LET m1 == [Execute(m, "insert") EXCEPT !.exists = TRUE]
       IN IF Fire("created") = TypeError THEN Raise(m1, TypeError)
          ELSE Return(m1, "true")

\* _finishSave(options)
finishSave(m) ==
  IF Fire("saved") = TypeError THEN Raise(m, TypeError)
  ELSE [m EXCEPT !.dirty = FALSE, !.synced = TRUE]

\* save(options)
save(m) ==
  IF Fire("saving") = TypeError THEN Raise(m, TypeError)
  ELSE IF Fire("saving") = "false" THEN Return(m, "false")
  ELSE LET m1 == IF m.exists
                 THEN IF m.dirty THEN performUpdate(m) ELSE Return(m, "true")
                 ELSE performInsert(m)
       IN IF m1.thrown # NoError THEN m1
          ELSE IF m1.ret = "true" THEN finishSave(m1)
          ELSE m1

\* delete()
delete(m) ==
  IF ~m.exists THEN Return(m, "false")
  ELSE IF Fire("deleting") = TypeError THEN Raise(m, TypeError)
  ELSE IF Fire("deleting") = "false" THEN Return(m, "false")
  ELSE LET m1 == [Execute(m, "delete") EXCEPT !.exists = FALSE]
       IN IF Fire("deleted") = TypeError THEN Raise(m1, TypeError)
          ELSE Return(m1, "true")

\* ----------------------------------------------------------- save actions
SaveStep(name, m) ==
  /\ sop' = name
  /\ exists' = m.exists
  /\ dirty' = m.dirty
  /\ sret' = m.ret
  /\ sthrown' = m.thrown
  /\ stmts' = m.stmts
  /\ synced' = m.synced
  /\ spre' = [exists |-> exists, dirty |-> dirty]
  /\ UNCHANGED <<dispatcher, vetoes, mapped, sdirty>>
  /\ UNCHANGED <<txVars, scopeVars, attrVars, instVars, bootVars, eagerVars,
               extraVars>>

Save == SaveStep("save", save(Saving))

Delete == SaveStep("delete", delete(Saving))

\* setAttribute with a value that differs from the original.
Modify ==
  /\ ~dirty
  /\ SaveStep("modify", [Saving EXCEPT !.dirty = TRUE])

\* Model.saving(callback) and the like: _registerModelEvent hands the
\* callback to the dispatcher when there is one.
RegisterModelEvent ==
  \E event \in HookEvents :
    /\ event \notin vetoes
    /\ vetoes' = IF dispatcher THEN vetoes \cup {event} ELSE vetoes
    /\ sop' = "register"
    /\ UNCHANGED <<exists, dirty, dispatcher, mapped, sret, sthrown, stmts,
                   synced, spre, sdirty>>
    /\ UNCHANGED <<txVars, scopeVars, attrVars, instVars, bootVars, eagerVars,
               extraVars>>

\* setEventDispatcher(dispatcher) / unsetEventDispatcher()
SetEventDispatcher ==
  /\ dispatcher' = ~dispatcher
  /\ sop' = "dispatcher"
  /\ UNCHANGED <<exists, dirty, vetoes, mapped, sret, sthrown, stmts, synced,
                 spre, sdirty>>
  /\ UNCHANGED <<txVars, scopeVars, attrVars, instVars, bootVars, eagerVars,
               extraVars>>

InitSave ==
  /\ TxIdle /\ NewBuilder /\ NewModel /\ NewClass /\ Unbooted /\ NothingEager
  /\ ExtraIdle
  /\ exists \in BOOLEAN
  /\ dirty = FALSE
  /\ dispatcher \in BOOLEAN
  /\ vetoes = {}
  /\ mapped \in {{}, {"saving"}}
  /\ sop = "new"
  /\ sret = "none"
  /\ sthrown = NoError
  /\ stmts = <<>>
  /\ synced = FALSE
  /\ spre = [exists |-> exists, dirty |-> FALSE]
  /\ sdirty = {}

NextSave ==
  \/ Save
  \/ Delete
  \/ Modify
  \/ RegisterModelEvent
  \/ SetEventDispatcher

SpecSave == InitSave /\ [][NextSave]_vars

\* ------------------------------------------------------------ save claims
\* The hooks save() consults for the model as it was before the call.
SaveHooks ==
  {"saving"} \cup (IF ~spre.exists THEN {"creating"}
                   ELSE IF spre.dirty THEN {"updating"} ELSE {})

\* C15: when a saving, creating or updating hook returns false, save()
\* returns false without raising, executes no statement and leaves exists and
\* original alone; when the deleting hook returns false, delete() returns
\* false, executes nothing and exists stays true; with or without a
\* dispatcher installed.
C15_HookVeto ==
  /\ (sop = "save" /\ SaveHooks \cap vetoes # {})
     => /\ sret = "false"
        /\ sthrown = NoError
        /\ stmts = <<>>
        /\ exists = spre.exists
        /\ ~synced
  /\ (sop = "delete" /\ spre.exists /\ "deleting" \in vetoes)
     => /\ sret = "false"
        /\ stmts = <<>>
        /\ exists


\* ================================================================ booting
MaxNesting == 2
MaxBoots == 2

\* this.constructor._booted as class c reads it: its own static property
\* once it has been assigned one, the one of Model until then.
bootedOf(b, c) == IF b[c].has THEN b[c].names ELSE b["Model"].names

\* The test and the assignment at the head of _bootIfNotBooted: whether
\* _boot() is to run, and the _booted properties afterwards.
bootAlways(b, c) ==
  [ boot |-> TRUE,
    booted |-> [b EXCEPT ![c] = [has |-> TRUE,
                                 names |-> bootedOf(b, c) \cup {c}]] ]

bootIfNotBooted(b, c) ==
  IF c \notin bootedOf(b, c)
  THEN [ boot |-> TRUE,
         booted |-> [b EXCEPT ![c] = [has |-> TRUE,
                                      names |-> bootedOf(b, c) \cup {c}]] ]
  ELSE [ boot |-> FALSE, booted |-> b ]

\* clearBootedModels() called on class c: this._booted = []
clearBootedModels(b, c) == [b EXCEPT ![c] = [has |-> TRUE, names |-> {}]]

Frame(c, pc) == [c |-> c, pc |-> pc]
Top == stack[Len(stack)]
SetTop(pc) == [stack EXCEPT ![Len(stack)] = Frame(Top.c, pc)]

\* Code runs at the top level or inside a boot hook of the innermost
\* constructor.
CanCall == IF stack = <<>> THEN TRUE ELSE Top.pc = "boot"

\* ----------------------------------------------------------- boot actions
\* new C(): the constructor is entered, from outside or from a boot hook of
\* a class that is booting.
BeginConstruct ==
  \E c \in ClassNames :
    /\ Len(stack) < MaxNesting
    /\ CanCall
    /\ stack' = Append(stack, Frame(c, "check"))
    /\ UNCHANGED <<booted, runs, everBooted, constructed>>
    /\ UNCHANGED <<txVars, scopeVars, attrVars, instVars, saveVars, eagerVars,
               extraVars>>

\* _bootIfNotBooted up to the call of _boot()
BootIfNotBooted ==
  /\ stack # <<>>
  /\ Top.pc = "check"
  /\ LET r == bootIfNotBooted(booted, Top.c) IN
     /\ booted' = r.booted
     /\ IF r.boot
        THEN /\ runs[Top.c] < MaxBoots
             /\ runs' = [runs EXCEPT ![Top.c] = @ + 1]
             /\ everBooted' = [everBooted EXCEPT ![Top.c] = TRUE]
             /\ stack' = SetTop("boot")
        ELSE /\ stack' = SetTop("rest")
             /\ UNCHANGED <<runs, everBooted>>
  /\ UNCHANGED constructed
  /\ UNCHANGED <<txVars, scopeVars, attrVars, instVars, saveVars, eagerVars,
               extraVars>>

\* _boot() and its trait hooks return
EndBoot ==
  /\ stack # <<>>
  /\ Top.pc = "boot"
  /\ stack' = SetTop("rest")
  /\ UNCHANGED <<booted, runs, everBooted, constructed>>
  /\ UNCHANGED <<txVars, scopeVars, attrVars, instVars, saveVars, eagerVars,
               extraVars>>

\* The rest of the constructor: syncOriginal(), fill().
EndConstruct ==
  /\ stack # <<>>
  /\ Top.pc = "rest"
  /\ constructed' = [constructed EXCEPT ![Top.c] = TRUE]
  /\ stack' = SubSeq(stack, 1, Len(stack) - 1)
  /\ UNCHANGED <<booted, runs, everBooted>>
  /\ UNCHANGED <<txVars, scopeVars, attrVars, instVars, saveVars, eagerVars,
               extraVars>>

\* C.clearBootedModels(), from outside or from a boot hook
ClearBootedModels ==
  \E c \in ClassNames :
    /\ CanCall
    /\ booted' = clearBootedModels(booted, c)
    /\ runs' = [k \in ClassNames |-> 0]
    /\ UNCHANGED <<stack, everBooted, constructed>>
    /\ UNCHANGED <<txVars, scopeVars, attrVars, instVars, saveVars, eagerVars,
               extraVars>>

InitBoot ==
  /\ TxIdle /\ NewBuilder /\ NewModel /\ NewClass /\ Unsaved /\ NothingEager
  /\ ExtraIdle
  /\ Unbooted

NextBoot ==
  \/ BeginConstruct
  \/ BootIfNotBooted
  \/ EndBoot
  \/ EndConstruct
  \/ ClearBootedModels

SpecBoot == InitBoot /\ [][NextBoot]_vars

\* ------------------------------------------------------------ boot claims
\* C16: between two calls of clearBootedModels() the boot routine of a class
\* runs at most once, however many instances are constructed and also when
\* the class is constructed again while it is booting; and it has run for
\* every class a construction of which got past the boot check.
C16_BootOnce ==
  \A c \in ClassNames :
    /\ runs[c] <= 1
    /\ constructed[c] => everBooted[c]
    /\ \A n \in 1..Len(stack) :
         (stack[n].c = c /\ stack[n].pc # "check") => everBooted[c]

\* A class is constructed again from its own boot hook and the inner
\* constructor has passed the boot check without booting.
C16_Witness ==
  /\ Len(stack) = 2
  /\ stack[1].c = stack[2].c
  /\ stack[1].pc = "boot"
  /\ stack[2].pc = "rest"
  /\ runs[stack[1].c] = 1


\* =========================================================== eager loading
MaxEntries == 4
MaxRows == 1

\* A relation path is the sequence of its characters, so that split, join,
\* includes and substr are computed rather than assumed.
Dot == <<".">>
PathA == <<"a">>
PathB == <<"b">>
PathAB == <<"a", ".", "b">>
PathABC == <<"a", ".", "b", ".", "c">>
PathBAC == <<"b", "a", ".", "c">>
PathMapB == <<"m", "a", "p", ".", "b">>
MethodName == <<"n", "a", "m", "e">>

\* _.includes(str, sub) / String.prototype.includes
Includes(str, sub) ==
  \E i \in 0..(Len(str) - Len(sub)) : SubSeq(str, i + 1, i + Len(sub)) = sub

\* str.substr(from)
Substr(str, from) == SubSeq(str, from + 1, Len(str))

\* name.split('.') followed by the join of the first segments: the prefixes
\* of name that end where a segment ends, shortest first.
Prefixes(name) ==
  LET ends == { i \in 1..Len(name) :
                  IF i = Len(name) THEN TRUE ELSE name[i + 1] = "." }
      RECURSIVE upTo(_)
      upTo(i) ==
        IF i > Len(name) THEN <<>>
        ELSE IF i \in ends THEN <<SubSeq(name, 1, i)>> \o upTo(i + 1)
        ELSE upTo(i + 1)
  IN upTo(1)

\* The property names every array inherits from Array.prototype, among the
\* names that occur as a path.
ArrayPrototype == { <<"m", "a", "p">> }

\* The property name of an array index.
Digits == <<"0", "1", "2", "3", "4", "5", "6", "7", "8", "9">>
IndexKey(i) == <<Digits[i + 1]>>
IsIndexKey(k) == \E i \in 0..9 : k = IndexKey(i)

\* An object's own enumerable properties, in order: [k, f] records.
Entry(k, f) == [k |-> k, f |-> f]
HasOwn(props, k) == \E n \in 1..Len(props) : props[n].k = k
Put(props, k, f) ==
  IF HasOwn(props, k)
  THEN [n \in 1..Len(props) |->
          IF props[n].k = k THEN Entry(k, f) ELSE props[n]]
  ELSE Append(props, Entry(k, f))
RECURSIVE PutAll(_, _)
PutAll(props, more) ==
  IF more = <<>> THEN props
  ELSE PutAll(Put(props, Head(more).k, Head(more).f), Tail(more))

\* results[last] read from the array `results`: an own property, or one the
\* array inherits.
Truthy(results, k) == HasOwn(results, k) \/ k \in ArrayPrototype

\* array.length: properties that are no index do not count.
ArrayLength(props) ==
  Cardinality({ n \in 1..Len(props) : IsIndexKey(props[n].k) })

\* _addNestedWiths(name, results)
RECURSIVE addNestedWithsFrom(_, _)
addNestedWithsFrom(progress, results) ==
  IF progress = <<>> THEN results
  ELSE addNestedWithsFrom(Tail(progress),
         IF ~Truthy(results, Head(progress))
         THEN Put(results, Head(progress), "noop") ELSE results)

addNestedWiths(name, results) == addNestedWithsFrom(Prefixes(name), results)

\* _parseWithRelations(relations): relations is a list of names (numeric
\* keys) or an object from names to constraints; no name holds a colon.
RECURSIVE parseWithRelationsFrom(_, _, _)
parseWithRelationsFrom(items, list, results) ==
  IF items = <<>> THEN results
  ELSE LET name == Head(items).k
           constraints == IF list THEN "noop" ELSE Head(items).f
       IN parseWithRelationsFrom(Tail(items), list,
            Put(addNestedWiths(name, results), name, constraints))

parseWithRelations(relations) ==
  parseWithRelationsFrom(relations.items, relations.list, <<>>)

\* with(relations): {...this._eagerLoad, ...eagerLoad}
with(el, relations) ==
  [arr |-> FALSE, entries |-> PutAll(el.entries, parseWithRelations(relations))]

\* without(relations): _.filter returns the kept values as an array; the
\* iteratee sees a number for `relation` when _eagerLoad is an array already.
without(el, relations) ==
  LET kept == SelectSeq(el.entries,
                LAMBDA en : IF el.arr THEN TRUE ELSE en.k \notin relations)
  IN [arr |-> TRUE,
      entries |-> [n \in 1..Len(kept) |-> Entry(IndexKey(n - 1), kept[n].f)]]

\* _isNestedUnder(relation, name)
isNestedUnder(relation, name) ==
  Includes(name, Dot) /\ Includes(name, relation \o Dot)

\* _relationsNestedUnder(relation): the properties put on the array `nested`.
\* Iterating an array _eagerLoad gives numbers for `name`, which include
\* nothing.
RECURSIVE relationsNestedUnderFrom(_, _, _)
relationsNestedUnderFrom(entries, relation, nested) ==
  IF entries = <<>> THEN nested
  ELSE relationsNestedUnderFrom(Tail(entries), relation,
         IF isNestedUnder(relation, Head(entries).k)
         THEN Put(nested, Substr(Head(entries).k, Len(relation \o Dot)),
                  Head(entries).f)
         ELSE nested)

relationsNestedUnder(el, relation) ==
  IF el.arr THEN <<>> ELSE relationsNestedUnderFrom(el.entries, relation, <<>>)

\* getRelation(name): this.getModel().newInstance().name() calls the member
\* called "name" whatever the relation asked for; when the model has none
\* the call raises a TypeError and the handler raises a ReferenceError, for
\* RelationNotFoundException is not imported.
getRelation(el, hasName, name) ==
  IF ~hasName
  THEN [thrown |-> ReferenceError, method |-> <<>>, nested |-> <<>>,
        installed |-> <<>>]
  ELSE LET nested == relationsNestedUnder(el, name)
       IN [thrown |-> NoError, method |-> MethodName, nested |-> nested,
           installed |-> IF ArrayLength(nested) > 0 THEN nested ELSE <<>>]

\* eagerLoadRelations(models): the forEach over _eagerLoad.  The key of an
\* array element is a number, which has no includes method.
RECURSIVE eagerLoadRelationsFrom(_, _, _, _)
eagerLoadRelationsFrom(entries, el, hasName, done) ==
  IF entries = <<>> THEN [thrown |-> NoError, resolved |-> done]
  ELSE IF el.arr THEN [thrown |-> TypeError, resolved |-> done]
  ELSE IF ~Includes(Head(entries).k, Dot)
       THEN LET r == getRelation(el, hasName, Head(entries).k)
            IN IF r.thrown # NoError
               THEN [thrown |-> r.thrown, resolved |-> done]
               ELSE eagerLoadRelationsFrom(Tail(entries), el, hasName,
                                           Append(done, r.method))
  ELSE eagerLoadRelationsFrom(Tail(entries), el, hasName, done)

eagerLoadRelations(el, hasName) ==
  eagerLoadRelationsFrom(el.entries, el, hasName, <<>>)

\* get(columns): scopes applied, rows hydrated, relations loaded when there
\* is a row.
get(el, hasName, n) ==
  IF n > 0 THEN eagerLoadRelations(el, hasName)
  ELSE [thrown |-> NoError, resolved |-> <<>>]

\* ---------------------------------------------------------- eager actions
NameList(names) ==
  [list |-> TRUE, items |-> [n \in 1..Len(names) |-> Entry(names[n], "")]]
Constrained(k, f) == [list |-> FALSE, items |-> <<Entry(k, f)>>]
WithInputs ==
  { NameList(<<PathABC>>), NameList(<<PathB>>), NameList(<<PathBAC>>),
    NameList(<<PathMapB>>), Constrained(PathAB, "f1") }
WithoutInputs == { {PathA}, {PathAB, PathB} }

EagerStep(name, given, el, thr, n, res, nested, handed) ==
  /\ eop' = name
  /\ epaths' = given
  /\ epre' = eagerLoad
  /\ eagerLoad' = el
  /\ ethrown' = thr
  /\ rows' = n
  /\ resolved' = res
  /\ nestedUnder' = nested
  /\ installed' = handed
  /\ UNCHANGED declaresName
  /\ UNCHANGED <<txVars, scopeVars, attrVars, instVars, saveVars, bootVars,
               extraVars>>

With ==
  \E relations \in WithInputs :
    /\ Len(with(eagerLoad, relations).entries) <= MaxEntries
    /\ EagerStep("with", relations.items, with(eagerLoad, relations), NoError,
                 0, <<>>, <<>>, <<>>)

Without ==
  \E relations \in WithoutInputs :
    /\ eop # "without"
    /\ EagerStep("without", relations, without(eagerLoad, relations), NoError,
                 0, <<>>, <<>>, <<>>)

Get ==
  \E n \in 0..MaxRows :
    /\ n <= MaxRows
    /\ LET r == get(eagerLoad, declaresName, n)
       IN EagerStep("get", <<>>, eagerLoad, r.thrown, n, r.resolved, <<>>, <<>>)

GetRelation ==
  \E name \in {PathA, PathB} :
    LET r == getRelation(eagerLoad, declaresName, name)
    IN EagerStep("getRelation", name, eagerLoad, r.thrown, 0,
                 IF r.thrown = NoError THEN <<r.method>> ELSE <<>>,
                 r.nested, r.installed)

InitEager ==
  /\ TxIdle /\ NewBuilder /\ NewModel /\ NewClass /\ Unsaved /\ Unbooted
  /\ ExtraIdle
  /\ eagerLoad = NoEagerLoad
  /\ declaresName \in BOOLEAN
  /\ eop = "new"
  /\ epaths = <<>>
  /\ epre = NoEagerLoad
  /\ ethrown = NoError
  /\ rows = 0
  /\ resolved = <<>>
  /\ nestedUnder = <<>>
  /\ installed = <<>>

NextEager ==
  \/ With
  \/ Without
  \/ Get
  \/ GetRelation

SpecEager == InitEager /\ [][NextEager]_vars

\* ----------------------------------------------------------- eager claims
KeysOf(el) == { el.entries[n].k : n \in 1..Len(el.entries) }

\* The proper prefixes of a path, cut at a dot.
ProperPrefixes(path) ==
  { SubSeq(path, 1, i - 1) : i \in { j \in 1..Len(path) : path[j] = "." } }

\* C17: after every with() call, every proper prefix (cut at a dot) of every
\* dotted key of the eager-load map is a key of the map as well.
C17_PrefixClosed ==
  eop = "with"
  => \A k \in KeysOf(eagerLoad) : ProperPrefixes(k) \subseteq KeysOf(eagerLoad)

\* path starts with relation followed by a dot
StartsWithDot(path, relation) ==
  /\ Len(path) > Len(relation)
  /\ SubSeq(path, 1, Len(relation) + 1) = relation \o Dot

\* The entries nested under a relation, under their path without the
\* relation and its dot, with their constraint.
NestedEntries(el, relation) ==
  { Entry(Substr(el.entries[n].k, Len(relation) + 1), el.entries[n].f) :
      n \in { m \in 1..Len(el.entries) :
                StartsWithDot(el.entries[m].k, relation) } }

AsSet(props) == { props[n] : n \in 1..Len(props) }

\* C18: resolving a relation for eager loading forwards to its sub-query
\* exactly the entries whose path starts with the relation and a dot, under
\* the path without that prefix and with their constraint, and installs them
\* on the sub-query whenever there are any.
C18_NestedForwarded ==
  (eop = "getRelation" /\ ~eagerLoad.arr)
  => /\ ethrown = NoError
     /\ AsSet(nestedUnder) = NestedEntries(eagerLoad, epaths)
     /\ AsSet(installed) = NestedEntries(eagerLoad, epaths)

\* C19: without(paths) removes exactly the entries whose key is in paths and
\* leaves the others under their key with their constraint, in their order.
C19_WithoutRemovesExactly ==
  (eop = "without" /\ ~epre.arr)
  => eagerLoad.entries
       = SelectSeq(epre.entries, LAMBDA en : en.k \notin epaths)

TopLevel(el) ==
  LET top == SelectSeq(el.entries, LAMBDA en : ~Includes(en.k, Dot))
  IN [n \in 1..Len(top) |-> top[n].k]

\* C20: get() eager loads only when a row was hydrated; it then resolves
\* every top-level entry once, in insertion order, through the relationship
\* declared under the entry's name, and no dotted entry.
C20_GetEagerLoads ==
  (eop = "get" /\ ~eagerLoad.arr)
  => /\ rows = 0 => (resolved = <<>> /\ ethrown = NoError)
     /\ rows > 0 => (resolved = TopLevel(eagerLoad) /\ ethrown = NoError)


\* ================================================ findOrFail and chunkById
MaxKey == 3
MaxCount == 2

TableKeys == 1..MaxKey

\* The rows a query returns are in ascending key order.
RECURSIVE Ascending(_)
Ascending(S) ==
  IF S = {} THEN <<>>
  ELSE LET least == CHOOSE k \in S : \A j \in S : k <= j
       IN <<least>> \o Ascending(S \ {least})

Elements(ids) == { ids[i] : i \in DOMAIN ids }

\* What a call hands back: a value, or (from an async method) a promise that
\* settles to the value.  A single model is a list of at most one key, the
\* empty list standing for undefined.
Value1(v) == [kind |-> "value", promise |-> FALSE, value |-> v]
PromiseOf(v) == [kind |-> "value", promise |-> TRUE, value |-> v]

\* builder.get(): async.
queryGet(keys) == PromiseOf(Ascending(keys))

\* BuildsQueries.first: async, _.first of the rows of take(1).get().
first(keys) ==
  PromiseOf(IF keys = {} THEN <<>> ELSE <<Ascending(keys)[1]>>)

\* findMany(ids)
findMany(t, ids) ==
  IF ids = <<>> THEN Value1(<<>>) ELSE queryGet(t \cap Elements(ids))

\* find(id): q.single says the argument is no array.
find(t, q) ==
  IF ~q.single THEN findMany(t, q.ids) ELSE first(t \cap Elements(q.ids))

\* `result.length === n`: a promise has no length.
LengthIs(result, n) == ~result.promise /\ Len(result.value) = n

\* _.isNull(result): neither a promise nor undefined is null.
IsNull(result) == FALSE

\* findOrFail(id): [ret, thrown].  The error class it constructs is not
\* imported by the module, so the throw statement raises a ReferenceError.
findOrFail(t, q) ==
  LET result == find(t, q)
  IN IF ~q.single
     THEN IF LengthIs(result, Cardinality(Elements(q.ids)))
          THEN [ret |-> result, thrown |-> NoError]
          ELSE [ret |-> NoResult, thrown |-> ReferenceError]
     ELSE IF ~IsNull(result)
          THEN [ret |-> result, thrown |-> NoError]
          ELSE [ret |-> NoResult, thrown |-> ReferenceError]

\* forPageAfterId(count, lastId).get(): the first `count` rows with a key
\* above lastId (0: no lastId).
Page(t, count, lastId) ==
  LET after == Ascending({ k \in t : k > lastId })
  IN SubSeq(after, 1, IF Len(after) < count THEN Len(after) ELSE count)

\* chunkById(count, callback): [ret, thrown, calls, requests].  `stopAt` is
\* the invocation at which the callback returns false (0: never).  The
\* page is the promise get() returns: it has no length, so countResults is
\* undefined and not 0, the callback is given the promise, and
\* results.last() raises a TypeError.
Bool(b) == [kind |-> IF b THEN "true" ELSE "false", promise |-> FALSE,
            value |-> <<>>]
chunkById(t, count, stopAt) ==
  LET results == PromiseOf(Page(t, count, 0))
  IN IF LengthIs(results, 0)
     THEN [ret |-> Bool(TRUE), thrown |-> NoError, calls |-> <<>>,
           requests |-> <<0>>]
     ELSE IF stopAt = 1
          THEN [ret |-> Bool(FALSE), thrown |-> NoError,
                calls |-> <<results>>, requests |-> <<0>>]
          ELSE [ret |-> NoResult, thrown |-> TypeError,
                calls |-> <<results>>, requests |-> <<0>>]

\* ------------------------------------------------------------ find actions
FindStep(name, given, t, r, thr, cs, reqs) ==
  /\ qop' = name
  /\ qarg' = given
  /\ table' = t
  /\ qret' = r
  /\ qthrown' = thr
  /\ qcalls' = cs
  /\ requests' = reqs
  /\ UNCHANGED <<txVars, scopeVars, attrVars, instVars, saveVars, bootVars,
                 eagerVars, touchVars, keyVars>>

\* A row is inserted into or deleted from the table.
InsertRow ==
  \E k \in TableKeys \ table :
    FindStep("insert", NoQueryArg, table \cup {k}, NoResult, NoError, <<>>,
             <<>>)

DeleteRow ==
  \E k \in table :
    FindStep("delete", NoQueryArg, table \ {k}, NoResult, NoError, <<>>, <<>>)

IdLists == { <<>> } \cup { <<k>> : k \in TableKeys } \cup
           { <<j, k>> : j \in TableKeys, k \in TableKeys }

FindOrFail ==
  \/ \E k \in TableKeys :
       LET q == [single |-> TRUE, ids |-> <<k>>, count |-> 0, stopAt |-> 0]
           r == findOrFail(table, q)
       IN FindStep("findOrFail", q, table, r.ret, r.thrown, <<>>, <<>>)
  \/ \E ids \in IdLists :
       LET q == [single |-> FALSE, ids |-> ids, count |-> 0, stopAt |-> 0]
           r == findOrFail(table, q)
       IN FindStep("findOrFail", q, table, r.ret, r.thrown, <<>>, <<>>)

ChunkById ==
  \E count \in 1..MaxCount, stopAt \in 0..MaxKey :
    LET q == [single |-> TRUE, ids |-> <<>>, count |-> count,
              stopAt |-> stopAt]
        r == chunkById(table, count, stopAt)
    IN FindStep("chunkById", q, table, r.ret, r.thrown, r.calls, r.requests)

InitFind ==
  /\ TxIdle /\ NewBuilder /\ NewModel /\ NewClass /\ Unsaved /\ Unbooted
  /\ NothingEager /\ NoTouch /\ NoParents
  /\ table \in SUBSET TableKeys
  /\ NothingAsked

NextFind ==
  \/ InsertRow
  \/ DeleteRow
  \/ FindOrFail
  \/ ChunkById

SpecFind == InitFind /\ [][NextFind]_vars

\* ------------------------------------------------------------- find claims
\* The rows a result stands for, once settled.
Settled(r) == r.value

\* C23: findOrFail(id) returns the model when the row exists and raises a
\* not-found error when it does not; findOrFail(ids) returns the models
\* exactly when as many rows are found as the list has distinct ids, and
\* raises a not-found error otherwise.
C23_FindOrFail ==
  qop = "findOrFail" =>
    LET wanted == Elements(qarg.ids)
        found == table \cap wanted
    IN IF found = wanted
       THEN qthrown = NoError /\ Settled(qret) = Ascending(found)
       ELSE qthrown # NoError

\* The pages chunkById is to pass to its callback: page after page above
\* the last key, up to the first page that is short, or the invocation at
\* which the callback returns false.
RECURSIVE PagesFrom(_, _, _, _, _)
PagesFrom(t, count, lastId, stopAt, n) ==
  LET page == Page(t, count, lastId)
  IN IF page = <<>> THEN <<>>
     ELSE IF stopAt = n \/ Len(page) < count THEN <<page>>
     ELSE <<page>> \o PagesFrom(t, count, page[Len(page)], stopAt, n + 1)

\* C24: chunkById passes each non-empty page once to the callback, page
\* after page by ascending key, returns false once the callback returns
\* false and true after the first short page, and raises nothing.
C24_ChunkById ==
  qop = "chunkById" =>
    LET pages == PagesFrom(table, qarg.count, 0, qarg.stopAt, 1)
    IN /\ qthrown = NoError
       /\ Len(qcalls) = Len(pages)
       /\ \A i \in 1..Len(pages) : Settled(qcalls[i]) = pages[i]
       /\ qret.kind =
            (IF qarg.stopAt \in 1..Len(pages) THEN "false" ELSE "true")


\* =============================================================== touching
MaxOpen == 1

\* this._ignoreOnTouch as class c reads it: its own static property once it
\* has been assigned one, the one of Model until then.
ignoredOf(ig, c) == IF ig[c].has THEN ig[c].classes ELSE ig["Model"].classes

\* withoutTouchingOn(models, callback) on class c, up to the callback
withoutTouchingOn(ig, c, models) ==
  [ig EXCEPT ![c] = [has |-> TRUE, classes |-> ignoredOf(ig, c) \cup models]]

\* the finally block of withoutTouchingOn
restoreTouching(ig, c, models) ==
  [ig EXCEPT ![c] = [has |-> TRUE, classes |-> ignoredOf(ig, c) \ models]]

\* cls['timestamps']: `timestamps` is assigned to Model.prototype by the
\* HasTimestamps mixin, so the class itself has it only if it declares a
\* static of that name.  cls['UPDATED_AT'] is the static 'updated_at'.
StaticTimestamps(decl) == decl
StaticUpdatedAt == TRUE

\* isIgnoringTouch(cls): the `return true` inside the forEach callback
\* returns from the callback, not from the method, whose last statement
\* returns false.
isIgnoringTouch(ig, cls, decl) ==
  IF ~StaticTimestamps(decl) \/ ~StaticUpdatedAt THEN TRUE ELSE FALSE

\* Relation.touch() for a related model of class cls: the number of update
\* statements it runs.
touch(ig, cls, decl) == IF ~isIgnoringTouch(ig, cls, decl) THEN 1 ELSE 0

\* ----------------------------------------------------------- touch actions
TouchStep(name, cls, ig, os, answer, n) ==
  /\ tcall' = name
  /\ targ' = cls
  /\ ignoreOnTouch' = ig
  /\ open' = os
  /\ tanswer' = answer
  /\ updates' = n
  /\ UNCHANGED declares
  /\ UNCHANGED <<txVars, scopeVars, attrVars, instVars, saveVars, bootVars,
                 eagerVars, findVars, keyVars>>

\* C.withoutTouching(callback) (models = {C}) or
\* C.withoutTouchingOn(models, callback): entered, the callback is running.
BeginWithoutTouching ==
  /\ Len(open) < MaxOpen
  /\ \E c \in ClassNames, models \in { {k} : k \in ClassNames } :
       TouchStep("withoutTouchingOn", c,
                 withoutTouchingOn(ignoreOnTouch, c, models),
                 Append(open, [on |-> c, models |-> models]), FALSE, 0)

\* The callback returns or throws: the finally block runs.
EndWithoutTouching ==
  /\ open # <<>>
  /\ LET o == open[Len(open)]
     IN TouchStep("restore", o.on,
                  restoreTouching(ignoreOnTouch, o.on, o.models),
                  SubSeq(open, 1, Len(open) - 1), FALSE, 0)

IsIgnoringTouch ==
  \E c \in ClassNames \ {"Model"} :
    TouchStep("isIgnoringTouch", c, ignoreOnTouch, open,
              isIgnoringTouch(ignoreOnTouch, c, declares), 0)

Touch ==
  \E c \in ClassNames \ {"Model"} :
    TouchStep("touch", c, ignoreOnTouch, open,
              isIgnoringTouch(ignoreOnTouch, c, declares),
              touch(ignoreOnTouch, c, declares))

InitTouch ==
  /\ TxIdle /\ NewBuilder /\ NewModel /\ NewClass /\ Unsaved /\ Unbooted
  /\ NothingEager /\ EmptyTable /\ NoParents
  /\ ignoreOnTouch = NothingIgnored
  /\ open = <<>>
  /\ declares \in BOOLEAN
  /\ tcall = "new"
  /\ targ = "Model"
  /\ tanswer = FALSE
  /\ updates = 0

NextTouch ==
  \/ BeginWithoutTouching
  \/ EndWithoutTouching
  \/ IsIgnoringTouch
  \/ Touch

SpecTouch == InitTouch /\ [][NextTouch]_vars

\* ------------------------------------------------------------ touch claims
\* Class c, or Model, which it derives from, is named by a withoutTouching
\* call in progress.
InIgnoreSet(c) ==
  \E i \in 1..Len(open) : c \in open[i].models \/ "Model" \in open[i].models

\* C25: for a class using timestamps, isIgnoringTouch(C) is true exactly
\* inside a withoutTouching call naming C or a class it derives from, and
\* touch() issues its update exactly when isIgnoringTouch is false.
C25_IgnoringTouch ==
  /\ tcall = "isIgnoringTouch" => (tanswer <=> InIgnoreSet(targ))
  /\ tcall = "touch" => (updates = 1 <=> ~InIgnoreSet(targ))


\* ================================================================ _getKeys
MaxParents == 4

\* _.sortedUniq(array): keeps an element unless it equals the one kept last.
RECURSIVE sortedUniqFrom(_, _)
sortedUniqFrom(array, result) ==
  IF array = <<>> THEN result
  ELSE sortedUniqFrom(Tail(array),
         IF result = <<>> \/ array[1] # result[Len(result)]
         THEN Append(result, array[1]) ELSE result)
sortedUniq(array) == sortedUniqFrom(array, <<>>)

\* _getKeys(models, key): models.map(...) is the list of the models' keys.
getKeys(models) == sortedUniq(models)

RECURSIVE ParentLists(_)
ParentLists(n) ==
  IF n = 0 THEN { <<>> }
  ELSE ParentLists(n - 1) \cup
       { Append(l, k) : l \in { m \in ParentLists(n - 1) : Len(m) = n - 1 },
                        k \in TableKeys }

KeyStep(name, ps, ks) ==
  /\ kop' = name
  /\ parents' = ps
  /\ keysOut' = ks
  /\ UNCHANGED <<txVars, scopeVars, attrVars, instVars, saveVars, bootVars,
                 eagerVars, findVars, touchVars>>

\* Another parent model is hydrated.
AddParent ==
  /\ Len(parents) < MaxParents
  /\ \E k \in TableKeys : KeyStep("add", Append(parents, k), <<>>)

GetKeys == KeyStep("getKeys", parents, getKeys(parents))

InitKeys ==
  /\ TxIdle /\ NewBuilder /\ NewModel /\ NewClass /\ Unsaved /\ Unbooted
  /\ NothingEager /\ EmptyTable /\ NoTouch
  /\ parents \in ParentLists(MaxParents)
  /\ kop = "new"
  /\ keysOut = <<>>

NextKeys == AddParent \/ GetKeys

SpecKeys == InitKeys /\ [][NextKeys]_vars

\* C28: _getKeys returns the parents' keys without duplicate and in
\* ascending order, whatever the order of the parents.
C28_KeysSortedUnique ==
  kop = "getKeys" => keysOut = Ascending(Elements(parents))


\* ===================================== save() with attributes and snapshots
\* The model class saved here declares timestamps = false; the key column
\* _insertAndSetId assigns is not among the modelled columns.
usesTimestamps == FALSE

\* The model while save() runs, with its attributes and snapshots.
Persisting ==
  [ attrs |-> attributes, orig |-> original, chg |-> changes,
    exists |-> exists, stmts |-> <<>>, wrote |-> {}, synced |-> FALSE,
    thrown |-> NoError, ret |-> "none" ]

\* _performUpdate(query)
persistUpdate(m) ==
  IF Fire("updating") = TypeError THEN Raise(m, TypeError)
  ELSE IF Fire("updating") = "false" THEN Return(m, "false")
  ELSE LET d == getDirty(m.attrs, m.orig) IN
       IF d.threw THEN Raise(m, "SyntaxError")
       ELSE IF d.keys # {}
       THEN LET m1 == [Execute(m, "update") EXCEPT !.wrote = d.keys]
            IN IF Fire("updated") = TypeError THEN Raise(m1, TypeError)
               ELSE Return([m1 EXCEPT !.chg = syncChanges(m1.attrs, m1.orig,
                                                         m1.chg)], "true")
       ELSE Return(m, "true")

\* _performInsert(query)
persistInsert(m) ==
  IF Fire("creating") = TypeError THEN Raise(m, TypeError)
  ELSE IF Fire("creating") = "false" THEN Return(m, "false")
  ELSE LET m1 == [Execute(m, "insert") EXCEPT !.exists = TRUE]
       IN IF Fire("created") = TypeError THEN Raise(m1, TypeError)
          ELSE Return(m1, "true")

\* _finishSave(options): no relation is listed in _touches.
persistFinish(m) ==
  IF Fire("saved") = TypeError THEN Raise(m, TypeError)
  ELSE IF isDirty(m.attrs, m.orig, <<>>) = "SyntaxError"
  THEN Raise(m, "SyntaxError")
  ELSE [m EXCEPT !.orig = syncOriginal(m.attrs), !.synced = TRUE]

\* save(options)
persist(m) ==
  IF Fire("saving") = TypeError THEN Raise(m, TypeError)
  ELSE IF Fire("saving") = "false" THEN Return(m, "false")
  ELSE LET m1 == IF m.exists
                 THEN LET d == isDirty(m.attrs, m.orig, <<>>) IN
                      IF d = "SyntaxError" THEN Raise(m, "SyntaxError")
                      ELSE IF d = "true" THEN persistUpdate(m)
                      ELSE Return(m, "true")
                 ELSE persistInsert(m)
       IN IF m1.thrown # NoError THEN m1
          ELSE IF m1.ret = "true"
               THEN LET m2 == persistFinish(m1)
                    IN IF m2.thrown # NoError THEN [m2 EXCEPT !.ret = "none"]
                       ELSE m2
               ELSE m1

\* The values an attribute is set to before a save.
PersistValues ==
  [ meta |-> {JsonA, ObjA},
    name |-> {StrX},
    votes |-> {Num1, Str1, NaN} ]

PersistStep(name, key, value, m) ==
  /\ sop' = name
  /\ mop' = name
  /\ mkey' = key
  /\ mval' = value
  /\ attributes' = m.attrs
  /\ original' = m.orig
  /\ changes' = m.chg
  /\ exists' = m.exists
  /\ dirty' = (isDirty(m.attrs, m.orig, <<>>) = "true")
  /\ sret' = m.ret
  /\ sthrown' = m.thrown
  /\ stmts' = m.stmts
  /\ synced' = m.synced
  /\ sdirty' = m.wrote
  /\ spre' = [exists |-> exists,
              dirty |-> isDirty(attributes, original, <<>>) = "true"]
  /\ UNCHANGED <<dispatcher, vetoes, mapped>>
  /\ UNCHANGED <<txVars, scopeVars, instVars, bootVars, eagerVars, extraVars>>

PersistSetAttribute ==
  \E k \in Keys : \E v \in PersistValues[k] :
    PersistStep("setAttribute", k, v,
                [Persisting EXCEPT !.attrs = setAttribute(attributes, k, v)])

PersistSave == PersistStep("save", "", Absent, persist(Persisting))

InitPersist ==
  /\ TxIdle /\ NewBuilder /\ NewModel /\ NewClass /\ Unbooted /\ NothingEager
  /\ ExtraIdle
  /\ exists = FALSE
  /\ dirty = FALSE
  /\ dispatcher \in BOOLEAN
  /\ vetoes = {}
  /\ mapped = {}
  /\ sop = "new"
  /\ sret = "none"
  /\ sthrown = NoError
  /\ stmts = <<>>
  /\ synced = FALSE
  /\ spre = [exists |-> FALSE, dirty |-> FALSE]
  /\ sdirty = {}

NextPersist == PersistSetAttribute \/ PersistSave

SpecPersist == InitPersist /\ [][NextPersist]_vars

\* C29: after save() returns true the model exists and is not dirty; on the
\* update path the changes snapshot holds exactly the attributes the
\* update wrote; save() on an existing model that is not dirty executes no
\* statement and returns true.
C29_SaveSyncs ==
  /\ (sop = "save" /\ sret = "true")
     => /\ exists
        /\ original = attributes
        /\ isDirty(attributes, original, <<>>) = "false"
        /\ stmts = <<"update">> => changes = sdirty
  /\ (sop = "save" /\ spre.exists /\ ~spre.dirty /\ sthrown = NoError)
     => (stmts = <<>> /\ sret = "true")

====
